---- MODULE Spec2Model ----
(***************************************************************************)
(* Consistency & Recovery Subsystem of the agent network.                  *)
(*                                                                         *)
(* The document store is modelled as four collections of documents.  The   *)
(* Transaction Coordinator (tools/transaction_manager.py) is modelled      *)
(* step by step: execute_transaction's retry loop, the execution of each   *)
(* operation inside a store transaction (a private snapshot of the store), *)
(* the commit with the outcomes the store can report, and the scoped       *)
(* transaction builder with its TransactionContext.                        *)
(***************************************************************************)
EXTENDS Integers, Sequences, FiniteSets, TLC

\* ------------------------------------------------------------------------
\* Bounds of the model
\* ------------------------------------------------------------------------
MaxCalls == 2      \* coordinator calls / scopes started in one behaviour
MaxScopeOps == 2   \* operations a caller enqueues in one transaction scope
MaxHistory == 2    \* records in transaction_history up to which a caller calls abort()

\* ------------------------------------------------------------------------
\* Values
\* ------------------------------------------------------------------------
Absent == "absent"          \* the field is not present in the document
None == "None"              \* Python None / BSON null

TaskIds == {"T1", "T2"}
AgentIds == {"manager", "developer"}

TerminalStatuses == {"completed", "cancelled"}
ActiveStatuses == {"assigned", "in_progress"}

max_retry_attempts == 3
retry_delay == 1            \* one unit of time = the configured 0.1 s

NoFilter == [field |-> "no_filter", value |-> "no_filter"]
NoData == [none |-> "no_data"]

\* ------------------------------------------------------------------------
\* The store: documents and the six operation kinds of _execute_operation
\* ------------------------------------------------------------------------
EmptyStore ==
    [tasks |-> {}, agent_states |-> {}, activity_logs |-> {}, archived_tasks |-> {}]

AgentDoc(a) ==
    [agent_id |-> a, status |-> "ready", current_task_id |-> Absent,
     tasks_assigned |-> 0, tasks_completed |-> 0]

\* the field carrying a unique index in each collection
UniqueKey(coll) ==
    CASE coll = "tasks" -> "task_id"
      [] coll = "agent_states" -> "agent_id"
      [] OTHER -> "_id"

Matching(s, coll, filter) ==
    {d \in s[coll] : d[filter.field] = filter.value}

\* $set / $unset / $inc of an update document applied to one document
ApplyUpdate(d, upd) ==
    [f \in DOMAIN d |->
        IF f \in upd.unset THEN Absent
        ELSE IF f \in DOMAIN upd.set THEN upd.set[f]
        ELSE IF f \in upd.inc THEN d[f] + 1
        ELSE d[f]]

KnownOperations ==
    {"insert", "update", "update_many", "replace", "delete", "delete_many"}

\* the exception _execute_operation raises for this operation on this
\* snapshot, "none" when it raises nothing
OperationError(s, op) ==
    IF op.operation \notin KnownOperations THEN "ValueError"
    ELSE IF /\ op.operation = "insert"
            /\ \E d \in s[op.collection] :
                  d[UniqueKey(op.collection)] = op.data[UniqueKey(op.collection)]
         THEN "DuplicateKeyError"
    ELSE "none"

\* the snapshot after _execute_operation ran the operation without error
execute_operation(s, op) ==
    LET coll == s[op.collection]
        hit == Matching(s, op.collection, op.filter)
        one == IF hit = {} THEN {} ELSE {CHOOSE d \in hit : TRUE}
    IN  CASE op.operation = "insert" ->
               [s EXCEPT ![op.collection] = coll \cup {op.data}]
          [] op.operation = "update" ->
               [s EXCEPT ![op.collection] =
                   (coll \ one) \cup {ApplyUpdate(d, op.data) : d \in one}]
          [] op.operation = "update_many" ->
               [s EXCEPT ![op.collection] =
                   (coll \ hit) \cup {ApplyUpdate(d, op.data) : d \in hit}]
          [] op.operation = "replace" ->
               [s EXCEPT ![op.collection] =
                   (coll \ one) \cup {op.data : d \in one}]
          [] op.operation = "delete" ->
               [s EXCEPT ![op.collection] = coll \ one]
          [] op.operation = "delete_many" ->
               [s EXCEPT ![op.collection] = coll \ hit]
          [] OTHER -> s

\* a rollback that lets the writes of the failed attempt through
abort_keeps_writes(st, sess) == sess

\* rollback when the `with session.start_transaction()` block is left by an
\* exception: the store keeps what it had; a commit installs the snapshot
abort_transaction(st, sess) == st
commit_transaction(st, sess) == sess

\* ------------------------------------------------------------------------
\* Operation lists
\* ------------------------------------------------------------------------
Update(set, unset, inc) == [set |-> set, unset |-> unset, inc |-> inc]

Operation(coll, kind, filter, data) ==
    [collection |-> coll, operation |-> kind, filter |-> filter, data |-> data]

KeyFilter(f, v) == [field |-> f, value |-> v]

\* create_task_with_assignment's operation list; c numbers the call, so that
\* <<c, i>> is the _id the driver puts into the i-th inserted document
create_task_operations(task_data, agent_id, c) ==
    << Operation("tasks", "insert", NoFilter, task_data),
       Operation("agent_states", "update", KeyFilter("agent_id", agent_id),
                 Update([status |-> "working", current_task_id |-> task_data.task_id],
                        {}, {"tasks_assigned"})),
       Operation("activity_logs", "insert", NoFilter,
                 [_id |-> <<c, 3>>, agent_id |-> "manager",
                  activity_type |-> "task_assigned", task_id |-> task_data.task_id]) >>

\* a completion that resets the agent's status but keeps its task reference
complete_task_operations_stale(task_id, agent_id, c) ==
    << Operation("tasks", "update", KeyFilter("task_id", task_id),
                 Update([status |-> "completed"], {}, {})),
       Operation("agent_states", "update", KeyFilter("agent_id", agent_id),
                 Update([status |-> "ready"], {}, {"tasks_completed"})),
       Operation("archived_tasks", "insert", NoFilter,
                 [_id |-> <<c, 3>>, task_id |-> task_id]),
       Operation("activity_logs", "insert", NoFilter,
                 [_id |-> <<c, 4>>, agent_id |-> agent_id,
                  activity_type |-> "task_completed", task_id |-> task_id]) >>

complete_task_operations(task_id, agent_id, c) ==
    << Operation("tasks", "update", KeyFilter("task_id", task_id),
                 Update([status |-> "completed"], {}, {})),
       Operation("agent_states", "update", KeyFilter("agent_id", agent_id),
                 Update([status |-> "ready", current_task_id |-> None],
                        {}, {"tasks_completed"})),
       Operation("archived_tasks", "insert", NoFilter,
                 [_id |-> <<c, 3>>, task_id |-> task_id]),
       Operation("activity_logs", "insert", NoFilter,
                 [_id |-> <<c, 4>>, agent_id |-> agent_id,
                  activity_type |-> "task_completed", task_id |-> task_id]) >>

TaskData == [task_id : TaskIds, status : {"assigned"}, assigned_to : AgentIds \cup {Absent}]

\* operation lists a caller hands to execute_transaction directly: they use
\* the operation kinds the two compound operations do not, and an unknown one
OperationLists(c) ==
    { << Operation("tasks", "insert", NoFilter,
                   [task_id |-> "T1", status |-> "created", assigned_to |-> Absent]),
         Operation("tasks", "update_many", KeyFilter("status", "created"),
                   Update([status |-> "cancelled"], {}, {})) >>,
      << Operation("agent_states", "replace", KeyFilter("agent_id", "developer"),
                   [agent_id |-> "developer", status |-> "stopped",
                    current_task_id |-> Absent, tasks_assigned |-> 0,
                    tasks_completed |-> 0]),
         Operation("tasks", "delete", KeyFilter("task_id", "T1"), NoData) >>,
      << Operation("activity_logs", "insert", NoFilter,
                   [_id |-> <<c, 1>>, agent_id |-> "manager",
                    activity_type |-> "note", task_id |-> "T2"]),
         Operation("archived_tasks", "delete_many", KeyFilter("task_id", "T1"), NoData),
         Operation("tasks", "upsert", KeyFilter("task_id", "T2"), NoData) >> }

\* all operations of the list applied in order to a snapshot that raises on none
RECURSIVE ApplyAll(_, _)
ApplyAll(s, list) ==
    IF list = <<>> THEN s
    ELSE ApplyAll(execute_operation(s, Head(list)), Tail(list))

\* ------------------------------------------------------------------------
\* State
\* ------------------------------------------------------------------------
VARIABLES
    store,      \* the committed contents of the four collections
    pc,         \* where the coordinator's single caller thread stands
    call,       \* the call being executed: its name and arguments
    operations, \* the operation list handed to execute_transaction
    attempt,    \* execute_transaction's local `attempt`
    idx,        \* index of the next operation of the running attempt
    session,    \* the snapshot of the open store transaction
    result,     \* what execute_transaction returned last
    base,       \* the store when the current call started
    attempts,   \* store transactions started by the current call
    sleeps,     \* the durations the current call passed to time.sleep
    errors,     \* the errors that ended the attempts of the current call
    durable,    \* commits of the current call the store made durable
    calls,      \* calls and scopes started so far
    previous,   \* the call before the current one, its result and its store
    failed,     \* some call so far returned False
    caller,     \* who called execute_transaction: "direct", "body" or "exit"
    context,    \* the TransactionContext of the open or last scope
    transaction_history, \* the statuses recorded in manager.transaction_history
    raised,     \* the exception raised inside the scope, "none" if none
    outcome,    \* how the scope ended for its caller: "returned" or the exception
    issues,     \* ConsistencyChecker.issues
    repairs_performed, \* ConsistencyChecker.repairs_performed
    cpc,        \* where run_full_check stands
    auto_repair, \* the argument of the running run_full_check
    rule,       \* index of the validation rule run_full_check runs next
    position,   \* index in issues of the issue _perform_repairs handles next
    checks,     \* run_full_check calls started so far
    rule_failures, \* names of the rules whose check function raised in this run
    repair_calls,  \* the repair functions called in this run, with their results
    report,     \* the report the last run_full_check returned
    queues,     \* the messages held by each queue of the broker
    now,        \* the wall clock, in seconds
    spc,        \* where perform_sync stands
    inconsistencies, \* the inconsistencies perform_sync detected in this pass
    sposition,  \* index of the inconsistency perform_sync resolves next
    results,    \* perform_sync's results: found and resolved counts
    passes,     \* perform_sync calls started so far
    previous_pass, \* the inconsistencies of the pass before, as it left them
    pass_start, \* the store and the queues when the current pass started
    sync_status, \* the sync_status document of the store
    sync_running, \* StateSyncService.running
    running,    \* RecoveryManager.running
    recovery_queue,   \* RecoveryManager.recovery_queue
    recovery_history, \* RecoveryManager.recovery_history
    healthy,    \* the outside world: which components answer their check
    mpc,        \* where the monitor thread stands
    mposition,  \* index of the component check_system_health checks next
    wpc,        \* where the recovery worker thread stands
    current,    \* the action the worker popped and is executing
    next_id,    \* identity of the next RecoveryAction object constructed
    backoffs,   \* the durations execute_recovery_action passed to time.sleep
    permanent,  \* the actions _handle_permanent_failure was called for
    stop_signals, \* the agents _stop_agent was called for
    alerts,     \* the priorities _send_alert was called with
    disabled,   \* the components _disable_component was called for
    popen_calls, \* the agent processes started with subprocess.Popen
    reconnect,  \* locals of the running _reconnect_*: attempt, delay, waits
    loop_errors, \* exceptions caught so far at the boundary of each loop
    agent_call, \* the last call an agent process made, with what it returned
    earlier_run \* the run_full_check before the current one, as it ended

txnVars == <<operations, attempt, idx, session, result, base, attempts, sleeps,
             errors, durable>>
scopeVars == <<context, transaction_history, raised, outcome>>

coordVars == <<pc, call, calls, caller, previous, failed, txnVars, scopeVars>>
checkerVars == <<issues, repairs_performed, cpc, auto_repair, rule, position, checks,
                 rule_failures, repair_calls, report>>
syncVars == <<queues, now, spc, inconsistencies, sposition, results, passes,
              previous_pass, pass_start, sync_status, sync_running>>
recoveryVars == <<running, recovery_queue, recovery_history, healthy, mpc, mposition,
                  wpc, current, next_id, backoffs, permanent, stop_signals, alerts,
                  disabled, popen_calls, reconnect, loop_errors>>
agentVars == <<agent_call, earlier_run>>
serviceVars == <<checkerVars, syncVars, recoveryVars, agentVars>>

vars == <<store, coordVars, serviceVars>>

NoCall == [name |-> "none", task_id |-> "none", agent_id |-> "none"]

NoContext == [operations |-> <<>>, committed |-> FALSE, aborted |-> FALSE]

\* a store without tasks, either before any agent registered its AgentState
\* or with every agent registered
NoReport == [total_issues |-> 0, repairs_performed |-> 0, auto_repair_enabled |-> FALSE]

\* ConsistencyChecker.__init__: no issues, no repairs, no run started
CheckerInit ==
    /\ issues = <<>>
    /\ repairs_performed = 0
    /\ cpc = "idle"
    /\ auto_repair = FALSE
    /\ rule = 0
    /\ position = 0
    /\ checks = 0
    /\ rule_failures = {}
    /\ repair_calls = <<>>
    /\ report = NoReport

QueueNames == {"manager-queue", "developer-queue", "work-requests"}

StartTime == 10000

NoResults == [inconsistencies_found |-> 0, inconsistencies_resolved |-> 0]

\* StateSyncService.__init__ with the queues as qs: no pass started
SyncInitWith(qs) ==
    /\ queues = qs
    /\ now = StartTime
    /\ spc = "idle"
    /\ inconsistencies = <<>>
    /\ sposition = 0
    /\ results = NoResults
    /\ passes = 0
    /\ previous_pass = <<>>
    /\ pass_start = [store |-> store, queues |-> qs]
    /\ sync_status = <<>>
    /\ sync_running = TRUE

SyncInit == SyncInitWith([q \in QueueNames |-> <<>>])

\* RecoveryManager.components, in the order of the dict
Components == <<"mongodb", "rabbitmq", "manager_agent", "developer_agent">>
ComponentNames == {Components[i] : i \in 1..Len(Components)}
LoopNames == {"sync", "monitor", "worker"}
NoReconnect == [attempt |-> 0, delay |-> 0, waits |-> <<>>]

\* RecoveryManager.__init__ followed by start(): both threads at the top of
\* their loop, nothing queued, nothing recorded
RecoveryInitWith(h) ==
    /\ running = TRUE
    /\ recovery_queue = <<>>
    /\ recovery_history = <<>>
    /\ healthy = h
    /\ mpc = "idle"
    /\ mposition = 0
    /\ wpc = "idle"
    /\ current = <<>>
    /\ next_id = 1
    /\ backoffs = <<>>
    /\ permanent = <<>>
    /\ stop_signals = <<>>
    /\ alerts = <<>>
    /\ disabled = <<>>
    /\ popen_calls = <<>>
    /\ reconnect = NoReconnect
    /\ loop_errors = [l \in LoopNames |-> 0]

RecoveryInit == RecoveryInitWith([c \in ComponentNames |-> TRUE])

\* no agent process has called anything yet
NoAgentCall == [name |-> "none", count |-> 0]

\* no run_full_check has been followed by another one
NoRun == [made |-> FALSE]

AgentInit ==
    /\ agent_call = NoAgentCall
    /\ earlier_run = NoRun

\* the coordinator at rest: no call running, nothing recorded
CoordinatorInit ==
    /\ pc = "idle"
    /\ call = NoCall
    /\ calls = 0
    /\ caller = "direct"
    /\ operations = <<>>
    /\ attempt = 0
    /\ idx = 0
    /\ session = store
    /\ result = "none"
    /\ base = store
    /\ attempts = 0
    /\ sleeps = <<>>
    /\ errors = <<>>
    /\ previous = [call |-> NoCall, result |-> "none", base |-> store]
    /\ failed = FALSE
    /\ durable = 0
    /\ context = NoContext
    /\ transaction_history = <<>>
    /\ raised = "none"
    /\ outcome = "none"

InitialStores ==
    {[EmptyStore EXCEPT !.agent_states = {AgentDoc(a) : a \in as}] :
        as \in {{}, AgentIds}}

Init ==
    /\ store \in InitialStores
    /\ CoordinatorInit
    /\ AgentInit
    /\ CheckerInit
    /\ SyncInit
    /\ RecoveryInit

\* ------------------------------------------------------------------------
\* execute_transaction
\* ------------------------------------------------------------------------
\* entry of execute_transaction(operations): attempt = 0
Enter(c, list, who) ==
    /\ call' = c
    /\ caller' = who
    /\ operations' = list
    /\ attempt' = 0
    /\ idx' = 0
    /\ session' = store
    /\ result' = "none"
    /\ base' = store
    /\ attempts' = 0
    /\ sleeps' = <<>>
    /\ errors' = <<>>
    /\ durable' = 0
    /\ pc' = "loop"
    /\ UNCHANGED <<store, failed>>

execute_transaction ==
    /\ pc = "idle"
    /\ calls < MaxCalls
    /\ calls' = calls + 1
    /\ previous' = [call |-> call, result |-> result, base |-> base]
    /\ \E list \in OperationLists(calls + 1) :
          Enter([name |-> "execute_transaction", task_id |-> "none",
                 agent_id |-> "none"], list, "direct")
    /\ UNCHANGED scopeVars
    /\ UNCHANGED serviceVars

create_task_with_assignment ==
    /\ pc = "idle"
    /\ calls < MaxCalls
    /\ calls' = calls + 1
    /\ previous' = [call |-> call, result |-> result, base |-> base]
    /\ \E task_data \in TaskData, agent_id \in AgentIds :
          Enter([name |-> "create_task_with_assignment",
                 task_id |-> task_data.task_id, agent_id |-> agent_id],
                create_task_operations(task_data, agent_id, calls + 1), "direct")
    /\ UNCHANGED scopeVars
    /\ UNCHANGED serviceVars

\* create_task_with_assignment called with task data that names the agent
create_task_assigned ==
    /\ pc = "idle"
    /\ calls < MaxCalls
    /\ calls' = calls + 1
    /\ previous' = [call |-> call, result |-> result, base |-> base]
    /\ \E task_data \in TaskData, agent_id \in AgentIds :
          /\ task_data.assigned_to = agent_id
          /\ Enter([name |-> "create_task_with_assignment",
                    task_id |-> task_data.task_id, agent_id |-> agent_id],
                   create_task_operations(task_data, agent_id, calls + 1), "direct")
    /\ UNCHANGED scopeVars
    /\ UNCHANGED serviceVars

complete_task_atomic ==
    /\ pc = "idle"
    /\ calls < MaxCalls
    /\ calls' = calls + 1
    /\ previous' = [call |-> call, result |-> result, base |-> base]
    /\ \E task_id \in TaskIds, agent_id \in AgentIds :
          Enter([name |-> "complete_task_atomic",
                 task_id |-> task_id, agent_id |-> agent_id],
                complete_task_operations(task_id, agent_id, calls + 1), "direct")
    /\ UNCHANGED scopeVars
    /\ UNCHANGED serviceVars

\* `while attempt < self.max_retry_attempts`: open a session and a transaction
StartAttempt ==
    /\ pc = "loop"
    /\ attempt < max_retry_attempts
    /\ session' = store
    /\ idx' = 1
    /\ attempts' = attempts + 1
    /\ pc' = "ops"
    /\ UNCHANGED <<store, call, calls, caller, previous, failed, operations,
                   attempt, result, base, sleeps, errors, durable, scopeVars>>
    /\ UNCHANGED serviceVars

\* the loop condition fails: "Transaction failed after N attempts"
RetriesExhausted ==
    /\ pc = "loop"
    /\ attempt >= max_retry_attempts
    /\ result' = "False"
    /\ failed' = TRUE
    /\ pc' = "returned"
    /\ UNCHANGED <<store, call, calls, caller, previous, operations, attempt, idx,
                   session, base, attempts, sleeps, errors, durable, scopeVars>>
    /\ UNCHANGED serviceVars

Retryable == {"TransientTransactionError", "UnknownTransactionCommitResult"}

\* a handler that retries every OperationFailure, labelled or not
IsRetryableAnyFailure(err) ==
    err \in Retryable \cup {"OperationFailure", "DuplicateKeyError"}

IsRetryable(err) == err \in Retryable

\* a backoff that sleeps the same retry_delay before every retry
BackoffConstant(err, n) ==
    IF err = "TransientTransactionError" THEN <<retry_delay>> ELSE <<>>

\* time.sleep(self.retry_delay * attempt) of the transient branch; the
\* unknown-commit branch continues without sleeping
Backoff(err, n) ==
    IF err = "TransientTransactionError" THEN <<retry_delay * n>> ELSE <<>>

\* the except branches of execute_transaction for the error err, the failed
\* attempt having left the store as st
Handle(err, st) ==
    /\ store' = st
    /\ session' = st
    /\ errors' = Append(errors, err)
    /\ IF IsRetryable(err)
       THEN /\ attempt' = attempt + 1
            /\ sleeps' = sleeps \o Backoff(err, attempt + 1)
            /\ pc' = "loop"
            /\ UNCHANGED <<result, failed>>
       ELSE /\ result' = "False"
            /\ failed' = TRUE
            /\ pc' = "returned"
            /\ UNCHANGED <<attempt, sleeps>>
    /\ UNCHANGED <<call, calls, caller, previous, operations, idx, base, attempts,
                   scopeVars>>

\* `for op in operations: self._execute_operation(session, op)`, one operation
ExecuteOperation ==
    /\ pc = "ops"
    /\ idx <= Len(operations)
    /\ LET op == operations[idx]
           err == OperationError(session, op)
       IN  IF err = "none"
           THEN /\ session' = execute_operation(session, op)
                /\ idx' = idx + 1
                /\ UNCHANGED <<store, pc, call, calls, caller, previous, failed,
                               operations, attempt, result, base, attempts, sleeps,
                               errors, durable, scopeVars>>
           ELSE /\ Handle(err, abort_transaction(store, session))
                /\ UNCHANGED durable
    /\ UNCHANGED serviceVars

\* errors the store reports while an operation runs
OperationFaults == {"TransientTransactionError", "ConnectionFailure"}

OperationFails ==
    /\ pc = "ops"
    /\ idx <= Len(operations)
    /\ \E err \in OperationFaults :
          Handle(err, abort_transaction(store, session))
    /\ UNCHANGED durable
    /\ UNCHANGED serviceVars

\* session.commit_transaction() succeeds: return True
CommitSucceeds ==
    /\ pc = "ops"
    /\ idx > Len(operations)
    /\ store' = commit_transaction(store, session)
    /\ durable' = durable + 1
    /\ result' = "True"
    /\ pc' = "returned"
    /\ UNCHANGED <<call, calls, caller, previous, failed, operations, attempt, idx,
                   session, base, attempts, sleeps, errors, scopeVars>>
    /\ UNCHANGED serviceVars

CommitFaults == {"TransientTransactionError", "OperationFailure"}

\* session.commit_transaction() raises and nothing was committed
CommitFails ==
    /\ pc = "ops"
    /\ idx > Len(operations)
    /\ \E err \in CommitFaults :
          Handle(err, abort_transaction(store, session))
    /\ UNCHANGED durable
    /\ UNCHANGED serviceVars

\* session.commit_transaction() raises UnknownTransactionCommitResult: the
\* store may or may not have made the commit durable
CommitUnknown ==
    /\ pc = "ops"
    /\ idx > Len(operations)
    /\ \E made \in BOOLEAN :
          /\ Handle("UnknownTransactionCommitResult",
                    IF made THEN commit_transaction(store, session)
                    ELSE abort_transaction(store, session))
          /\ durable' = IF made THEN durable + 1 ELSE durable
    /\ UNCHANGED serviceVars

\* execute_transaction returns to a caller that called it directly
Return ==
    /\ pc = "returned"
    /\ caller = "direct"
    /\ pc' = "idle"
    /\ UNCHANGED <<store, call, calls, caller, previous, failed, txnVars, scopeVars>>
    /\ UNCHANGED serviceVars

\* ------------------------------------------------------------------------
\* The scoped transaction: TransactionManager.transaction, TransactionContext
\* ------------------------------------------------------------------------
\* what a caller enqueues as the i-th operation of scope number c
ScopeOperations(c, i) ==
    { Operation("tasks", "update", KeyFilter("task_id", "T1"),
                Update([status |-> "completed"], {}, {})),
      Operation("tasks", "insert", NoFilter,
                [task_id |-> "T1", status |-> "created", assigned_to |-> Absent]),
      Operation("activity_logs", "insert", NoFilter,
                [_id |-> <<c, i>>, agent_id |-> "system",
                 activity_type |-> "consistency_repair", task_id |-> "T1"]) }

Record(status) == Append(transaction_history, status)

\* `with transaction_manager.transaction(description) as txn:`
transaction ==
    /\ pc = "idle"
    /\ calls < MaxCalls
    /\ calls' = calls + 1
    /\ previous' = [call |-> call, result |-> result, base |-> base]
    /\ call' = [name |-> "transaction", task_id |-> "none", agent_id |-> "none"]
    /\ context' = NoContext
    /\ raised' = "none"
    /\ outcome' = "none"
    /\ operations' = <<>>
    /\ result' = "none"
    /\ base' = store
    /\ durable' = 0
    /\ pc' = "body"
    /\ UNCHANGED <<store, caller, failed, attempt, idx, session, attempts, sleeps,
                   errors, transaction_history>>
    /\ UNCHANGED serviceVars

\* txn.insert / txn.update / ...: append the operation to context.operations
Enqueue ==
    /\ pc = "body"
    /\ Len(context.operations) < MaxScopeOps
    /\ \E op \in ScopeOperations(calls, Len(context.operations) + 1) :
          context' = [context EXCEPT !.operations = Append(@, op)]
    /\ UNCHANGED <<store, pc, call, calls, caller, previous, failed, txnVars,
                   transaction_history, raised, outcome>>
    /\ UNCHANGED serviceVars

\* an exception e leaves the body of the scope: control is in `except Exception`
Raise(e) ==
    /\ raised' = e
    /\ pc' = "except"
    /\ UNCHANGED <<store, call, calls, caller, previous, failed, txnVars, context,
                   transaction_history, outcome>>

\* an exception raised by TransactionContext.commit, called by who
RaiseFrom(e, who) ==
    /\ raised' = e
    /\ caller' = who
    /\ pc' = "except"
    /\ UNCHANGED <<store, call, calls, previous, failed, txnVars, context,
                   transaction_history, outcome>>

\* TransactionContext.commit up to its call of execute_transaction
commit(who) ==
    IF context.committed \/ context.aborted
    THEN RaiseFrom("RuntimeError: Transaction already finalized", who)
    ELSE /\ Enter(call, context.operations, who)
         /\ UNCHANGED <<calls, previous, scopeVars>>

\* the caller calls txn.commit() inside the scope
BodyCommit ==
    /\ pc = "body"
    /\ commit("body")
    /\ UNCHANGED serviceVars

\* TransactionContext.abort called by the caller inside the scope
BodyAbort ==
    /\ pc = "body"
    /\ Len(transaction_history) < MaxHistory
    /\ IF context.committed
       THEN Raise("RuntimeError: Cannot abort committed transaction")
       ELSE /\ context' = [context EXCEPT !.aborted = TRUE]
            /\ transaction_history' = Record("aborted")
            /\ UNCHANGED <<store, pc, call, calls, caller, previous, failed, txnVars,
                           raised, outcome>>
    /\ UNCHANGED serviceVars

\* the caller's code raises inside the scope
BodyRaise ==
    /\ pc = "body"
    /\ Raise("CallerError")
    /\ UNCHANGED serviceVars

\* the body ends normally: `if context.operations and not context.committed:
\* context.commit()`, else the scope is left
BodyEnd ==
    /\ pc = "body"
    /\ IF context.operations # <<>> /\ ~context.committed
       THEN commit("exit")
       ELSE /\ outcome' = "returned"
            /\ pc' = "idle"
            /\ UNCHANGED <<store, call, calls, caller, previous, failed, txnVars,
                           context, transaction_history, raised>>
    /\ UNCHANGED serviceVars

\* TransactionContext.commit after execute_transaction returned
CommitReturn ==
    /\ pc = "returned"
    /\ caller \in {"body", "exit"}
    /\ context' = [context EXCEPT !.committed = (result = "True")]
    /\ transaction_history' = Record(IF result = "True" THEN "committed" ELSE "failed")
    /\ IF result # "True"
       THEN /\ raised' = "RuntimeError: Transaction commit failed"
            /\ pc' = "except"
            /\ UNCHANGED outcome
       ELSE IF caller = "body"
       THEN /\ pc' = "body"
            /\ UNCHANGED <<raised, outcome>>
       ELSE /\ outcome' = "returned"
            /\ pc' = "idle"
            /\ UNCHANGED raised
    /\ UNCHANGED <<store, call, calls, caller, previous, failed, txnVars>>
    /\ UNCHANGED serviceVars

\* `except Exception as e: context.abort(); raise`
Except ==
    /\ pc = "except"
    /\ IF context.committed
       THEN /\ outcome' = "RuntimeError: Cannot abort committed transaction"
            /\ UNCHANGED <<context, transaction_history>>
       ELSE /\ context' = [context EXCEPT !.aborted = TRUE]
            /\ transaction_history' = Record("aborted")
            /\ outcome' = raised
    /\ pc' = "idle"
    /\ UNCHANGED <<store, call, calls, caller, previous, failed, txnVars, raised>>
    /\ UNCHANGED serviceVars

\* ------------------------------------------------------------------------
\* Specifications
\* ------------------------------------------------------------------------
\* the coordinator called directly: execute_transaction on an operation list
\* and the two compound operations
Next ==
    \/ execute_transaction
    \/ create_task_with_assignment
    \/ complete_task_atomic
    \/ StartAttempt
    \/ RetriesExhausted
    \/ ExecuteOperation
    \/ OperationFails
    \/ CommitSucceeds
    \/ CommitFails
    \/ CommitUnknown
    \/ Return

Spec == Init /\ [][Next]_vars

\* the coordinator used through transaction scopes
ScopeNext ==
    \/ transaction
    \/ Enqueue
    \/ BodyCommit
    \/ BodyAbort
    \/ BodyRaise
    \/ BodyEnd
    \/ CommitReturn
    \/ Except
    \/ StartAttempt
    \/ RetriesExhausted
    \/ ExecuteOperation
    \/ OperationFails
    \/ CommitSucceeds
    \/ CommitFails
    \/ CommitUnknown

ScopeSpec == Init /\ [][ScopeNext]_vars

\* a caller that uses only the two compound operations
CompoundNext ==
    \/ create_task_with_assignment
    \/ complete_task_atomic
    \/ StartAttempt
    \/ RetriesExhausted
    \/ ExecuteOperation
    \/ OperationFails
    \/ CommitSucceeds
    \/ CommitFails
    \/ CommitUnknown
    \/ Return

CompoundSpec == Init /\ [][CompoundNext]_vars

\* the compound operations, every task created with assigned_to naming the agent
AssignNext ==
    \/ create_task_assigned
    \/ complete_task_atomic
    \/ StartAttempt
    \/ RetriesExhausted
    \/ ExecuteOperation
    \/ OperationFails
    \/ CommitSucceeds
    \/ CommitFails
    \/ CommitUnknown
    \/ Return

AssignSpec == Init /\ [][AssignNext]_vars

\* ------------------------------------------------------------------------
\* Properties of execute_transaction
\* ------------------------------------------------------------------------
Returned == pc \in {"returned", "idle"} /\ call.name # "none"

RECURSIVE Times(_, _, _)
Times(s, list, n) ==
    IF n = 0 THEN s ELSE Times(ApplyAll(s, list), list, n - 1)

\* the last attempt ended because its operation number idx raised
FailedAtOperation == pc \in {"loop", "returned", "idle"} /\ idx \in 1..Len(operations)

\* C1: the store never shows a part of an operation list: at every moment it
\* is the store of the call's start with the whole list applied a whole number
\* of times (none, or all of it), and a call whose first attempt raised on an
\* operation, the last one included, has persisted nothing of the earlier ones.
C1_Atomicity ==
    /\ \E n \in 0..max_retry_attempts : store = Times(base, operations, n)
    /\ (FailedAtOperation /\ attempts = 1) => store = base

\* C1 witness: the first attempt executed the earlier operations in its
\* transaction, the last operation raised, and the store is as before the call.
C1_Witness ==
    /\ pc = "returned"
    /\ result = "False"
    /\ attempts = 1
    /\ idx = Len(operations)
    /\ idx > 1
    /\ ApplyAll(base, SubSeq(operations, 1, idx - 1)) # base
    /\ store = base

\* C2: whenever execute_transaction has returned False, the store holds
\* nothing of the operation list: it is the store the call started from.
C2_FailureCommitsNothing ==
    (Returned /\ result = "False") => store = base

\* the sleeps the retry policy of the claim prescribes after n retryable errors
RECURSIVE LinearBackoff(_)
LinearBackoff(n) ==
    IF n = 0 THEN <<>> ELSE Append(LinearBackoff(n - 1), retry_delay * n)

\* the sleeps after the retryable errors es: retry_delay * i after the i-th
\* error when it is a transient conflict, none after an unknown commit outcome
RECURSIVE TransientBackoff(_)
TransientBackoff(es) ==
    IF es = <<>> THEN <<>>
    ELSE LET front == SubSeq(es, 1, Len(es) - 1)
         IN  IF es[Len(es)] = "TransientTransactionError"
             THEN Append(TransientBackoff(front), retry_delay * Len(es))
             ELSE TransientBackoff(front)

RetryableErrors == SelectSeq(errors, LAMBDA e : e \in Retryable)

BudgetRespected ==
    /\ attempts <= max_retry_attempts
    /\ attempt = Len(RetryableErrors)
    /\ (Returned /\ attempt = max_retry_attempts) => result = "False"

\* C3 as stated: a retry follows each transient conflict and each unknown
\* commit outcome, within max_retry_attempts attempts, each retry preceded by
\* a sleep of retry_delay * attempt, and failure is returned at the end.
C3_Original ==
    /\ BudgetRespected
    /\ sleeps = LinearBackoff(attempt)

\* C3 amended: as C3, but only a transient conflict is followed by the sleep of
\* retry_delay * attempt; an unknown commit outcome is retried without a sleep.
C3_RetryPolicy ==
    /\ BudgetRespected
    /\ sleeps = TransientBackoff(RetryableErrors)

\* C3 witness: the budget is exhausted by transient conflicts and an unknown
\* commit outcome, and failure was returned.
C3_Witness ==
    /\ pc = "returned"
    /\ result = "False"
    /\ attempt = max_retry_attempts
    /\ attempts = max_retry_attempts
    /\ errors[1] = "TransientTransactionError"
    /\ errors[2] = "UnknownTransactionCommitResult"
    /\ errors[3] = "TransientTransactionError"
    /\ sleeps = <<retry_delay, 3 * retry_delay>>

\* C4: an error that is neither a transient conflict nor an unknown commit
\* outcome ends the call: the attempt it ended is the last one, the call
\* returns False, and when it is the first error the call made one attempt.
C4_TerminalError ==
    (errors # <<>> /\ errors[Len(errors)] \notin Retryable) =>
        /\ Returned
        /\ result = "False"
        /\ attempts = Len(errors)
        /\ (Len(errors) = 1 => attempts = 1 /\ sleeps = <<>>)

\* C4 witness: the first attempt met a terminal error and the call returned.
C4_Witness ==
    /\ pc = "returned"
    /\ errors = <<"ConnectionFailure">>
    /\ attempts = 1
    /\ result = "False"

\* ------------------------------------------------------------------------
\* Properties of the transaction scope
\* ------------------------------------------------------------------------
ScopeEnded == pc = "idle" /\ call.name = "transaction" /\ outcome # "none"

\* C5: a scope left normally has committed the operations it enqueued; a scope
\* in which an exception was raised ends aborted, with none of its operations
\* applied to the store, and hands that same exception to its caller.
C5_ScopeExit ==
    ScopeEnded =>
        IF raised = "none"
        THEN /\ outcome = "returned"
             /\ (context.operations # <<>> => context.committed)
        ELSE /\ outcome = raised
             /\ context.aborted
             /\ store = base

\* ------------------------------------------------------------------------
\* Properties of the compound operations
\* ------------------------------------------------------------------------
NewDocs(coll) == store[coll] \ base[coll]

Unset(v) == v \in {Absent, None}

CallEnded(name) == pc = "idle" /\ call.name = name

\* C6: after create_task_with_assignment returned True the Task is inserted,
\* the agent's AgentState is working on it and one log entry was appended;
\* after it returned False the store is the one the call started from.
C6_CreateAsUnit ==
    CallEnded("create_task_with_assignment") =>
        IF result = "True"
        THEN /\ \E t \in NewDocs("tasks") : t.task_id = call.task_id
             /\ \A a \in store.agent_states :
                   a.agent_id = call.agent_id =>
                       a.status = "working" /\ a.current_task_id = call.task_id
             /\ Cardinality(NewDocs("activity_logs")) = 1
        ELSE store = base

\* C7: after complete_task_atomic returned True the Task is completed, the
\* agent's AgentState is ready with no current task, one archival copy and one
\* log entry were inserted; after it returned False the store is the one the
\* call started from.
C7_CompleteAsUnit ==
    CallEnded("complete_task_atomic") =>
        IF result = "True"
        THEN /\ \A t \in store.tasks :
                   t.task_id = call.task_id => t.status = "completed"
             /\ \A a \in store.agent_states :
                   a.agent_id = call.agent_id =>
                       a.status = "ready" /\ Unset(a.current_task_id)
             /\ Cardinality(NewDocs("archived_tasks")) = 1
             /\ Cardinality(NewDocs("activity_logs")) = 1
        ELSE store = base

\* a successful create_task_with_assignment directly followed by a successful
\* complete_task_atomic for the same task and agent
RoundTrip ==
    /\ CallEnded("complete_task_atomic")
    /\ result = "True"
    /\ previous.call.name = "create_task_with_assignment"
    /\ previous.result = "True"
    /\ previous.call.task_id = call.task_id
    /\ previous.call.agent_id = call.agent_id

\* C8: after the round trip every Task in a non-terminal status was in the
\* store, unchanged, before the round trip (the round trip left none behind),
\* and the agent's AgentState has no current_task_id.
C8_RoundTrip ==
    RoundTrip =>
        /\ \A t \in store.tasks :
              t.status \notin TerminalStatuses => t \in previous.base.tasks
        /\ \A a \in store.agent_states :
              a.agent_id = call.agent_id => Unset(a.current_task_id)

\* C8 witness: a round trip ended, its Task is completed and the AgentState
\* that was working on it has its reference cleared.
C8_Witness ==
    /\ RoundTrip
    /\ \E t \in store.tasks : t.task_id = call.task_id /\ t.status = "completed"
    /\ \E a \in store.agent_states :
          /\ a.agent_id = call.agent_id
          /\ a.current_task_id = None
          /\ a.tasks_assigned = 1
          /\ a.tasks_completed = 1

\* C9: every Task has assigned_to set exactly when its status is assigned or
\* in_progress.
C9_AssignedIffActive ==
    \A t \in store.tasks : (~Unset(t.assigned_to)) <=> (t.status \in ActiveStatuses)

\* C10: while every call so far returned True, every AgentState with a
\* current_task_id references a Task in the store that is assigned to it.
C10_NoDrift ==
    (pc = "idle" /\ ~failed) =>
        \A a \in store.agent_states :
            ~Unset(a.current_task_id) =>
                \E t \in store.tasks :
                    t.task_id = a.current_task_id /\ t.assigned_to = a.agent_id

\* ------------------------------------------------------------------------
\* The valid Task transition graph
\* ------------------------------------------------------------------------
TaskStatuses == {"created", "assigned", "in_progress", "completed", "failed", "cancelled"}

\* ConsistencyChecker.valid_transitions['tasks'].get(prev_status, [])
valid_transitions(prev_status) ==
    CASE prev_status = "created" -> {"assigned", "cancelled"}
      [] prev_status = "assigned" -> {"in_progress", "created", "cancelled"}
      [] prev_status = "in_progress" -> {"completed", "failed", "assigned"}
      [] prev_status = "completed" -> {}
      [] prev_status = "failed" -> {"created", "assigned"}
      [] prev_status = "cancelled" -> {}
      [] OTHER -> {}

\* the step changes the status of no Task except along an edge of the graph
FollowsGraph ==
    \A d \in store.tasks : \A e \in store'.tasks :
        (d.task_id = e.task_id /\ d.status # e.status)
            => e.status \in valid_transitions(d.status)

\* C11: every status change applied to a Task by a compound operation of the
\* coordinator follows an edge of the valid Task transition graph.
C11_ValidTransitions == [][FollowsGraph]_vars

\* ------------------------------------------------------------------------
\* The Consistency Checker: documents, issues and check functions
\* ------------------------------------------------------------------------
\* Documents of the checker's store carry the ObjectId _id (a number, in
\* insertion order).  completed_at and status_history stand for
\* metadata.completed_at and metadata.status_history: <<>> when the key is
\* missing, <<t>> for a completion time, times counted in hours.
RECURSIVE Ordered(_)
Ordered(S) ==
    IF S = {} THEN <<>>
    ELSE LET d == CHOOSE x \in S : \A y \in S : x._id <= y._id
         IN  <<d>> \o Ordered(S \ {d})

\* collection.find(...) restricted to the documents satisfying Keep
Find(s, coll, Keep(_)) == Ordered({d \in s[coll] : Keep(d)})

\* collection.find_one({field: value}): the first match, <<>> standing for None
find_one(s, coll, field, value) ==
    LET hit == Find(s, coll, LAMBDA d : d[field] = value)
    IN  IF hit = <<>> THEN <<>> ELSE <<Head(hit)>>

\* the issues a check function appends while it iterates over docs
RECURSIVE Flatten(_)
Flatten(ss) ==
    IF ss = <<>> THEN <<>> ELSE Head(ss) \o Flatten(Tail(ss))

Collect(docs, F(_)) == Flatten([i \in 1..Len(docs) |-> F(docs[i])])

ConsistencyIssue(type, coll, id, severity, data, repairable) ==
    [type |-> type, collection |-> coll, document_id |-> id, severity |-> severity,
     data |-> data, can_auto_repair |-> repairable]

AgentStatuses == {"active", "ready", "working", "error", "stopped", "listening"}

\* _validate_schemas: the valid_values part for the fields the documents of
\* the model carry (every document has its required fields, well typed)
validate_schemas(s) ==
    Collect(Find(s, "tasks", LAMBDA d : TRUE), LAMBDA d :
        IF d.status \notin TaskStatuses
        THEN <<ConsistencyIssue("schema_violation", "tasks", d._id, "medium",
                                [field |-> "status", value |-> d.status], TRUE)>>
        ELSE <<>>)
    \o
    Collect(Find(s, "agent_states", LAMBDA d : TRUE), LAMBDA d :
        (IF d.status \notin AgentStatuses
         THEN <<ConsistencyIssue("schema_violation", "agent_states", d._id, "medium",
                                 [field |-> "status", value |-> d.status], TRUE)>>
         ELSE <<>>)
        \o
        (IF d.agent_id \notin AgentIds
         THEN <<ConsistencyIssue("schema_violation", "agent_states", d._id, "medium",
                                 [field |-> "agent_id", value |-> d.agent_id], TRUE)>>
         ELSE <<>>))

check_task_agent_references(s) ==
    Collect(Find(s, "tasks", LAMBDA d : d.assigned_to # Absent), LAMBDA task :
        IF find_one(s, "agent_states", "agent_id", task.assigned_to) = <<>>
        THEN <<ConsistencyIssue("missing_reference", "tasks", task._id, "high",
                                [task_id |-> task.task_id, agent_id |-> task.assigned_to],
                                TRUE)>>
        ELSE <<>>)

\* an invalid transition marked as fit for automatic repair
transition_marked_repairable == TRUE

\* can_auto_repair of an invalid_status_transition issue: manual review needed
transition_can_auto_repair == FALSE

\* the issues of one status history: one per adjacent pair outside the table
RECURSIVE HistoryIssues(_, _)
HistoryIssues(task, i) ==
    IF i > Len(task.status_history) THEN <<>>
    ELSE LET prev_status == task.status_history[i - 1]
             curr_status == task.status_history[i]
         IN  (IF curr_status \notin valid_transitions(prev_status)
              THEN <<ConsistencyIssue("invalid_status_transition", "tasks", task._id,
                                      "medium",
                                      [task_id |-> task.task_id,
                                       transition |-> <<prev_status, curr_status>>],
                                      transition_can_auto_repair)>>
              ELSE <<>>)
             \o HistoryIssues(task, i + 1)

\* a loop that starts one pair too late: range(2, len(history))
check_task_status_skipping_first(s) ==
    Collect(Find(s, "tasks", LAMBDA d : TRUE), LAMBDA task : HistoryIssues(task, 3))

\* `for i in range(1, len(history))` over every Task
check_task_status_consistency(s) ==
    Collect(Find(s, "tasks", LAMBDA d : TRUE), LAMBDA task : HistoryIssues(task, 2))

check_task_temporal_consistency(s) ==
    Collect(Find(s, "tasks", LAMBDA d : TRUE), LAMBDA task :
        IF task.completed_at # <<>> /\ task.completed_at[1] < task.created_at
        THEN <<ConsistencyIssue("temporal_inconsistency", "tasks", task._id, "high",
                                [task_id |-> task.task_id,
                                 created_at |-> task.created_at,
                                 completed_at |-> task.completed_at[1]],
                                TRUE)>>
        ELSE <<>>)

check_agent_task_references(s) ==
    Collect(Find(s, "agent_states", LAMBDA d : d.current_task_id \notin {Absent, None}),
            LAMBDA agent :
        LET task == find_one(s, "tasks", "task_id", agent.current_task_id)
        IN  IF task = <<>>
            THEN <<ConsistencyIssue("missing_reference", "agent_states", agent._id, "high",
                                    [agent_id |-> agent.agent_id,
                                     task_id |-> agent.current_task_id], TRUE)>>
            ELSE IF task[1].assigned_to # agent.agent_id
            THEN <<ConsistencyIssue("referential_integrity", "agent_states", agent._id,
                                    "high",
                                    [agent_id |-> agent.agent_id,
                                     task_id |-> agent.current_task_id,
                                     task_assigned_to |-> task[1].assigned_to], TRUE)>>
            ELSE <<>>)

\* the $group / $match pipeline: one issue per agent_id carried by several
\* documents, in the order of the first of them
check_agent_uniqueness(s) ==
    Collect(Find(s, "agent_states", LAMBDA d :
                 /\ \E e \in s.agent_states : e.agent_id = d.agent_id /\ e._id # d._id
                 /\ \A e \in s.agent_states : e.agent_id = d.agent_id => d._id <= e._id),
            LAMBDA d :
        LET docs == {e._id : e \in {x \in s.agent_states : x.agent_id = d.agent_id}}
        IN  <<ConsistencyIssue("duplicate_entry", "agent_states", docs, "critical",
                               [agent_id |-> d.agent_id, count |-> Cardinality(docs)],
                               FALSE)>>)

check_activity_agent_references(s) ==
    LET agent_ids == {a.agent_id : a \in s.agent_states}
    IN  Collect(Find(s, "activity_logs", LAMBDA d : TRUE), LAMBDA activity :
            IF activity.agent_id \notin agent_ids /\ activity.agent_id # "system"
            THEN <<ConsistencyIssue("missing_reference", "activity_logs", activity._id,
                                    "low", [agent_id |-> activity.agent_id], FALSE)>>
            ELSE <<>>)

check_bidirectional_references(s) ==
    Collect(Find(s, "tasks", LAMBDA d :
                 d.status \in {"assigned", "in_progress"} /\ d.assigned_to # Absent),
            LAMBDA task :
        LET agent == find_one(s, "agent_states", "agent_id", task.assigned_to)
        IN  IF agent # <<>> /\ agent[1].current_task_id # task.task_id
            THEN <<ConsistencyIssue("referential_integrity", "*",
                                    [task |-> task._id, agent |-> agent[1]._id], "high",
                                    [task_id |-> task.task_id,
                                     task_assigned_to |-> task.assigned_to,
                                     agent_current_task |-> agent[1].current_task_id],
                                    TRUE)>>
            ELSE <<>>)

\* ------------------------------------------------------------------------
\* The Consistency Checker: rules, repair functions and their dispatch
\* ------------------------------------------------------------------------
ValidationRule(name, coll, repair, severity) ==
    [name |-> name, collection |-> coll, repair_func |-> repair, severity |-> severity]

\* _define_validation_rules, in its order; repair_func "none" stands for None
validation_rules ==
    << ValidationRule("task_assigned_agent_exists", "tasks",
                      "_repair_task_agent_references", "high"),
       ValidationRule("task_status_consistency", "tasks", "none", "medium"),
       ValidationRule("task_temporal_consistency", "tasks",
                      "_repair_task_temporal_consistency", "low"),
       ValidationRule("agent_current_task_exists", "agent_states",
                      "_repair_agent_task_references", "high"),
       ValidationRule("agent_unique_ids", "agent_states", "none", "critical"),
       ValidationRule("activity_agent_exists", "activity_logs", "none", "low"),
       ValidationRule("bidirectional_references", "*",
                      "_repair_bidirectional_references", "high") >>

\* rule.check_func() of the rule number r
check_func(r, s) ==
    CASE r = 1 -> check_task_agent_references(s)
      [] r = 2 -> check_task_status_consistency(s)
      [] r = 3 -> check_task_temporal_consistency(s)
      [] r = 4 -> check_agent_task_references(s)
      [] r = 5 -> check_agent_uniqueness(s)
      [] r = 6 -> check_activity_agent_references(s)
      [] r = 7 -> check_bidirectional_references(s)

\* _perform_repairs' search: the repair function of the first rule that has
\* one and whose collection is the issue's collection or "*"
repair_func(issue) ==
    LET fit == {r \in 1..Len(validation_rules) :
                   /\ validation_rules[r].repair_func # "none"
                   /\ validation_rules[r].collection \in {issue.collection, "*"}}
    IN  IF fit = {} THEN "none"
        ELSE validation_rules[CHOOSE r \in fit : \A q \in fit : r <= q].repair_func

\* the repair function raises before its scope is left normally: a KeyError
\* on a key the issue's data does not carry
repair_raises(func, issue) ==
    \/ func = "_repair_task_agent_references" /\ "task_id" \notin DOMAIN issue.data
    \/ func = "_repair_task_temporal_consistency" /\ "created_at" \notin DOMAIN issue.data
    \/ func = "_repair_bidirectional_references" /\ "task_id" \notin DOMAIN issue.data

\* a repair that resets the status and leaves the dangling assignment
repair_task_agent_keeps_assignee(issue, n) ==
    << Operation("tasks", "update", KeyFilter("_id", issue.document_id),
                 Update([status |-> "created"], {}, {})),
       Operation("activity_logs", "insert", NoFilter,
                 [_id |-> n, agent_id |-> "system",
                  activity_type |-> "consistency_repair",
                  task_id |-> issue.data.task_id]) >>

\* the operations each repair function enqueues in its transaction scope; n
\* is the _id the driver gives the inserted log entry
repair_task_agent_references(issue, n) ==
    << Operation("tasks", "update", KeyFilter("_id", issue.document_id),
                 Update([status |-> "created"], {"assigned_to"}, {})),
       Operation("activity_logs", "insert", NoFilter,
                 [_id |-> n, agent_id |-> "system",
                  activity_type |-> "consistency_repair",
                  task_id |-> issue.data.task_id]) >>

repair_task_temporal_consistency(issue, n) ==
    << Operation("tasks", "update", KeyFilter("_id", issue.document_id),
                 Update([completed_at |-> <<issue.data.created_at + 1>>], {}, {})) >>

repair_agent_task_references(issue, n) ==
    << Operation("agent_states", "update", KeyFilter("_id", issue.document_id),
                 Update([status |-> "ready"], {"current_task_id"}, {})) >>

repair_bidirectional_references(issue, n) ==
    << Operation("agent_states", "update", KeyFilter("_id", issue.document_id.agent),
                 Update([current_task_id |-> issue.data.task_id], {}, {})) >>

\* repair_func(issue), by the name of the function
repair_operations(func, issue, n) ==
    CASE func = "_repair_task_agent_references" -> repair_task_agent_references(issue, n)
      [] func = "_repair_task_temporal_consistency" ->
           repair_task_temporal_consistency(issue, n)
      [] func = "_repair_agent_task_references" -> repair_agent_task_references(issue, n)
      [] func = "_repair_bidirectional_references" ->
           repair_bidirectional_references(issue, n)

\* how the transaction scope of a repair can end: its operations committed
\* and the scope left normally; nothing committed and an exception raised;
\* or, after a commit of unknown outcome that was durable, the operations
\* committed and "Transaction commit failed" raised all the same
ScopeOutcomes == {"committed", "aborted", "committed_unreported"}

\* the first issue at or after index i that _perform_repairs handles:
\* repairable_issues = [i for i in self.issues if i.can_auto_repair]
NextRepairable(list, i) ==
    LET later == {j \in i..Len(list) : list[j].can_auto_repair}
    IN  IF later = {} THEN Len(list) + 1
        ELSE CHOOSE j \in later : \A k \in later : j <= k

\* ------------------------------------------------------------------------
\* The Consistency Checker: run_full_check
\* ------------------------------------------------------------------------
MaxChecks == 1         \* run_full_check calls in one behaviour
MaxRuleFailures == 1   \* check functions that raise in one run

\* run_full_check up to the loop over the rules: clear the previous results
\* and validate the schemas
run_full_check ==
    /\ cpc = "idle"
    /\ checks < MaxChecks
    /\ checks' = checks + 1
    /\ auto_repair' \in BOOLEAN
    /\ issues' = validate_schemas(store)
    /\ repairs_performed' = 0
    /\ rule' = 1
    /\ position' = 0
    /\ rule_failures' = {}
    /\ repair_calls' = <<>>
    /\ cpc' = "rules"
    /\ UNCHANGED <<store, coordVars, agentVars, report>>
    /\ UNCHANGED <<syncVars, recoveryVars>>

\* a run that stops at the first rule whose check function raises
abort_after_failure(r) == Len(validation_rules) + 1

\* the rule run_full_check runs after the rule number r raised: the except
\* branch is inside the loop, so the next one
continue_after_failure(r) == r + 1

\* the issue run_full_check appends when the check function of rule r raised
rule_failure_issue(r) ==
    ConsistencyIssue("schema_violation", validation_rules[r].collection, None,
                     "critical", [rule |-> validation_rules[r].name], FALSE)

\* control after the rule number r - 1, the issues being list: the next
\* rule, then `if auto_repair: self._perform_repairs()` as long as a
\* repairable issue is left, then the report
AfterRule(r, list) ==
    IF r <= Len(validation_rules)
    THEN /\ rule' = r
         /\ cpc' = "rules"
         /\ position' = 0
    ELSE /\ rule' = r
         /\ position' = IF auto_repair THEN NextRepairable(list, 1) ELSE 0
         /\ cpc' = IF auto_repair /\ NextRepairable(list, 1) <= Len(list)
                   THEN "repairs" ELSE "report"

\* `rule.check_func()` returns
RunRule ==
    /\ cpc = "rules"
    /\ LET list == issues \o check_func(rule, store)
       IN  /\ issues' = list
           /\ AfterRule(rule + 1, list)
    /\ UNCHANGED <<store, coordVars, agentVars, repairs_performed, auto_repair, checks,
                   rule_failures, repair_calls, report>>
    /\ UNCHANGED <<syncVars, recoveryVars>>

\* `rule.check_func()` raises after it appended the first k of its issues
RuleRaises ==
    /\ cpc = "rules"
    /\ Cardinality(rule_failures) < MaxRuleFailures
    /\ \E k \in 0..Len(check_func(rule, store)) :
          LET list == (issues \o SubSeq(check_func(rule, store), 1, k))
                         \o <<rule_failure_issue(rule)>>
          IN  /\ issues' = list
              /\ AfterRule(continue_after_failure(rule), list)
    /\ rule_failures' = rule_failures \cup {validation_rules[rule].name}
    /\ UNCHANGED <<store, coordVars, agentVars, repairs_performed, auto_repair, checks,
                   repair_calls, report>>
    /\ UNCHANGED <<syncVars, recoveryVars>>

\* one round of _perform_repairs' loop: find the repair function of the
\* issue, call it, count the repair when it returned True
RepairIssue ==
    /\ cpc = "repairs"
    /\ position <= Len(issues)
    /\ LET issue == issues[position]
           func == repair_func(issue)
           n == 100 * checks + position
       IN  IF func = "none"
           THEN UNCHANGED <<store, repairs_performed, repair_calls>>
           ELSE \E end \in (IF repair_raises(func, issue) THEN {"raised"}
                              ELSE ScopeOutcomes) :
                   /\ store' = IF end \in {"committed", "committed_unreported"}
                                THEN ApplyAll(store, repair_operations(func, issue, n))
                                ELSE store
                   /\ repairs_performed' =
                          IF end = "committed" THEN repairs_performed + 1
                          ELSE repairs_performed
                   /\ repair_calls' =
                          Append(repair_calls,
                                 [issue |-> position, func |-> func, end |-> end,
                                  before |-> store])
    /\ position' = NextRepairable(issues, position + 1)
    /\ cpc' = IF NextRepairable(issues, position + 1) <= Len(issues)
              THEN "repairs" ELSE "report"
    /\ UNCHANGED <<coordVars, agentVars, issues, auto_repair, rule, checks, rule_failures,
                   report>>
    /\ UNCHANGED <<syncVars, recoveryVars>>

\* run_full_check builds its report and returns it
Report ==
    /\ cpc = "report"
    /\ report' = [total_issues |-> Len(issues),
                  repairs_performed |-> repairs_performed,
                  auto_repair_enabled |-> auto_repair]
    /\ cpc' = "idle"
    /\ UNCHANGED <<store, coordVars, agentVars, issues, repairs_performed, auto_repair, rule,
                   position, checks, rule_failures, repair_calls>>
    /\ UNCHANGED <<syncVars, recoveryVars>>

\* ------------------------------------------------------------------------
\* The stores the checker is run on
\* ------------------------------------------------------------------------
TaskRecord(id, status, assigned_to, completed_at, history) ==
    [_id |-> IF id = "T1" THEN 1 ELSE 2, task_id |-> id, status |-> status,
     assigned_to |-> assigned_to, created_at |-> 2, completed_at |-> completed_at,
     status_history |-> history]

AgentRecord(id, agent_id, status, current_task_id) ==
    [_id |-> id, agent_id |-> agent_id, status |-> status,
     current_task_id |-> current_task_id]

\* status histories: none, a valid one, and histories with one, two and
\* three adjacent pairs outside the table (the last has the same pair twice)
StatusHistories ==
    { <<>>,
      <<"created", "assigned", "in_progress">>,
      <<"created", "completed">>,
      <<"assigned", "completed", "created">>,
      <<"created", "completed", "created", "completed">> }

\* the first Task of the store: every assignment shape, the completion
\* times before and after created_at, and the status histories
FirstTasks ==
    {TaskRecord("T1", st[1], st[2], <<>>, <<>>) :
        st \in { <<"created", Absent>>, <<"assigned", "manager">>,
                 <<"assigned", "worker-1">>, <<"in_progress", "developer">>,
                 <<"completed", Absent>> }}
    \cup {TaskRecord("T1", st[1], st[2], <<t>>, <<>>) :
             st \in {<<"completed", Absent>>, <<"in_progress", "manager">>},
             t \in {1, 3}}
    \cup {TaskRecord("T1", "completed", Absent, <<3>>, h) : h \in StatusHistories}

SecondTasks ==
    { TaskRecord("T2", "assigned", "worker-1", <<>>, <<>>) }

AgentSets ==
    { {},
      {AgentRecord(11, "manager", "ready", Absent)},
      {AgentRecord(11, "manager", "working", "T1"),
       AgentRecord(12, "developer", "working", "T3")},
      {AgentRecord(11, "manager", "ready", None),
       AgentRecord(12, "manager", "working", "T1")},
      {AgentRecord(11, "worker-1", "busy", Absent),
       AgentRecord(12, "developer", "ready", "T2")} }

LogSets ==
    { {[_id |-> 21, agent_id |-> "developer", activity_type |-> "heartbeat",
        task_id |-> Absent]} }

CheckerStores ==
    {[tasks |-> first \cup second, agent_states |-> agents, activity_logs |-> logs,
      archived_tasks |-> {}] :
        first \in {{}} \cup {{t} : t \in FirstTasks},
        second \in {{}} \cup {{t} : t \in SecondTasks},
        agents \in AgentSets,
        logs \in LogSets}

CheckerSpecInit ==
    /\ store \in CheckerStores
    /\ CoordinatorInit
    /\ AgentInit
    /\ CheckerInit
    /\ SyncInit
    /\ RecoveryInit

CheckerNext ==
    \/ run_full_check
    \/ RunRule
    \/ RuleRaises
    \/ RepairIssue
    \/ Report

CheckerSpec == CheckerSpecInit /\ [][CheckerNext]_vars

\* ------------------------------------------------------------------------
\* Properties of the Consistency Checker
\* ------------------------------------------------------------------------
\* the rule number r has run in the current or last run without raising
RuleHasRun(r) == rule > r /\ validation_rules[r].name \notin rule_failures

\* the positions of the issues of the given type reported for a document
IssuesFor(type, id) ==
    {k \in 1..Len(issues) : issues[k].type = type /\ issues[k].document_id = id}

\* the positions in a status history where prev -> curr are adjacent
Occurrences(history, prev, curr) ==
    {i \in 2..Len(history) : history[i - 1] = prev /\ history[i] = curr}

\* C12: once the status rule has run, every adjacent pair of every Task's
\* status history is in the valid-transition table or has exactly one
\* invalid_status_transition issue, of medium severity and not auto-repairable;
\* a pair of the table has none.
C12_TransitionConformance ==
    RuleHasRun(2) =>
        \A task \in store.tasks : \A prev \in TaskStatuses, curr \in TaskStatuses :
            LET reported == {k \in IssuesFor("invalid_status_transition", task._id) :
                                issues[k].data.transition = <<prev, curr>>}
            IN  /\ Cardinality(reported) =
                      IF curr \in valid_transitions(prev) THEN 0
                      ELSE Cardinality(Occurrences(task.status_history, prev, curr))
                /\ \A k \in reported : /\ issues[k].severity = "medium"
                                        /\ ~issues[k].can_auto_repair

\* C12 witness: the status rule has run on a history that has a valid pair,
\* and an invalid pair twice, and each occurrence has its issue.
C12_Witness ==
    /\ RuleHasRun(2)
    /\ \E task \in store.tasks :
          /\ Cardinality(Occurrences(task.status_history, "created", "completed")) = 2
          /\ Cardinality(IssuesFor("invalid_status_transition", task._id)) = 3

\* the Task the issue number k is about
TaskOf(k) == CHOOSE task \in store.tasks : task._id = issues[k].document_id

\* the calls of repair functions made for the issue number k in this run
CallsFor(k) == {c \in 1..Len(repair_calls) : repair_calls[c].issue = k}

Committed(c) == repair_calls[c].end \in {"committed", "committed_unreported"}

\* a run with auto_repair has returned
RepairRunReturned == cpc = "idle" /\ checks > 0 /\ auto_repair

\* C13: once the reference rule has run, a Task with status assigned whose
\* assigned_to names an agent without AgentState has exactly one
\* missing_reference issue, high and auto-repairable; a run with auto_repair
\* calls _repair_task_agent_references for every such issue, and when that
\* repair's transaction committed, the Task has status created and no
\* assigned_to once the run has returned.
C13_MissingAgentRepaired ==
    /\ (cpc = "rules" /\ RuleHasRun(1)) =>
          \A task \in store.tasks :
              (/\ task.status = "assigned"
               /\ task.assigned_to # Absent
               /\ \A a \in store.agent_states : a.agent_id # task.assigned_to)
              => /\ Cardinality(IssuesFor("missing_reference", task._id)) = 1
                 /\ \A k \in IssuesFor("missing_reference", task._id) :
                       /\ issues[k].severity = "high"
                       /\ issues[k].can_auto_repair
                       /\ issues[k].collection = "tasks"
    /\ RepairRunReturned =>
          \A k \in 1..Len(issues) :
              (issues[k].type = "missing_reference" /\ issues[k].collection = "tasks")
              => /\ Cardinality(CallsFor(k)) = 1
                 /\ \A c \in CallsFor(k) :
                       /\ repair_calls[c].func = "_repair_task_agent_references"
                       /\ Committed(c) => /\ TaskOf(k).status = "created"
                                           /\ TaskOf(k).assigned_to = Absent

\* C13 witness: a run with auto_repair has returned, the repair of the
\* missing_reference issue of a Task that was assigned to worker-1 committed
\* and was counted, and the Task is created and unassigned.
C13_Witness ==
    /\ RepairRunReturned
    /\ repairs_performed > 0
    /\ \E k \in 1..Len(issues) : \E c \in CallsFor(k) :
          /\ issues[k].type = "missing_reference"
          /\ issues[k].collection = "tasks"
          /\ issues[k].data.agent_id = "worker-1"
          /\ repair_calls[c].end = "committed"
          /\ \E old \in repair_calls[c].before.tasks :
                old._id = issues[k].document_id /\ old.status = "assigned"
          /\ TaskOf(k).status = "created"
          /\ TaskOf(k).assigned_to = Absent

\* the store right after the call number c of a repair function returned
AfterCall(c) ==
    IF c < Len(repair_calls) THEN repair_calls[c + 1].before ELSE store

\* the document with this _id in a collection of the store s
DocIn(s, coll, id) == CHOOSE d \in s[coll] : d._id = id

\* C14: once the temporal rule has run, a Task whose completed_at precedes
\* its created_at has a temporal_inconsistency issue, high and auto-repairable,
\* and a committed repair of such an issue sets the Task's completed_at to
\* created_at + 1h and changes no other field of the Task.
C14_TemporalRepair ==
    /\ (cpc = "rules" /\ RuleHasRun(3)) =>
          \A task \in store.tasks :
              (task.completed_at # <<>> /\ task.completed_at[1] < task.created_at)
              => \E k \in IssuesFor("temporal_inconsistency", task._id) :
                    issues[k].severity = "high" /\ issues[k].can_auto_repair
    /\ \A c \in 1..Len(repair_calls) :
          LET issue == issues[repair_calls[c].issue]
          IN  (issue.type = "temporal_inconsistency" /\ Committed(c))
              => DocIn(AfterCall(c), "tasks", issue.document_id) =
                    [DocIn(repair_calls[c].before, "tasks", issue.document_id)
                        EXCEPT !.completed_at = <<issue.data.created_at + 1>>]

\* the store is the one the rules of the current or last run were checked on
StoreAsChecked == checks > 0 /\ (cpc = "rules" \/ ~auto_repair)

\* the issues recording that the check function of the rule named name raised
FailureIssues(name) ==
    {k \in 1..Len(issues) : "rule" \in DOMAIN issues[k].data /\ issues[k].data.rule = name}

Reported(x) ==
    \E k \in 1..Len(issues) :
        issues[k].type = x.type /\ issues[k].collection = x.collection /\ issues[k] = x

\* C15: a check function that raises is recorded as exactly one critical
\* issue naming its rule; the run is not aborted: it leaves the loop over the
\* rules only after the last rule, every rule that did not raise has its issues
\* reported, and the report returned counts all of them.
C15_RuleFailureRecorded ==
    /\ \A r \in 1..Len(validation_rules) :
          LET name == validation_rules[r].name
          IN  /\ Cardinality(FailureIssues(name)) = IF name \in rule_failures THEN 1 ELSE 0
              /\ \A k \in FailureIssues(name) :
                    issues[k].severity = "critical" /\ ~issues[k].can_auto_repair
    /\ (checks > 0 /\ cpc # "rules") => rule = Len(validation_rules) + 1
    /\ StoreAsChecked =>
          \A r \in 1..Len(validation_rules) :
              RuleHasRun(r) =>
                 \A i \in 1..Len(check_func(r, store)) : Reported(check_func(r, store)[i])
    /\ (cpc = "idle" /\ checks > 0) => report.total_issues = Len(issues)

\* C15 witness: a run has returned its report; the check function of the
\* first rule raised, and a later rule still reported its issue.
C15_Witness ==
    /\ cpc = "idle"
    /\ rule_failures = {"task_assigned_agent_exists"}
    /\ report.total_issues = Len(issues)
    /\ \E k \in 1..Len(issues) : issues[k].type = "temporal_inconsistency"
    /\ \E k \in 1..Len(issues) : issues[k].type = "duplicate_entry"

\* C16: every repair function call that returned True committed, in the
\* transaction of its mutation, one new ActivityLogEntry.
C16_RepairsLogged ==
    \A c \in 1..Len(repair_calls) :
        repair_calls[c].end = "committed"
        => \E entry \in AfterCall(c).activity_logs :
              /\ entry \notin repair_calls[c].before.activity_logs
              /\ entry.activity_type = "consistency_repair"

NeverRepaired == {"duplicate_entry", "invalid_status_transition"}

\* C17: no duplicate agent_id issue and no invalid status transition issue is
\* passed to a repair function, and repairs_performed counts exactly the
\* repair function calls that returned True, none of which is for such an issue.
C17_NeverAutoRepaired ==
    /\ \A k \in 1..Len(issues) :
          /\ issues[k].type = "duplicate_entry"
                => issues[k].severity = "critical" /\ ~issues[k].can_auto_repair
          /\ issues[k].type = "invalid_status_transition"
                => issues[k].severity = "medium" /\ ~issues[k].can_auto_repair
    /\ \A c \in 1..Len(repair_calls) :
          issues[repair_calls[c].issue].type \notin NeverRepaired
    /\ repairs_performed =
          Cardinality({c \in 1..Len(repair_calls) : repair_calls[c].end = "committed"})

\* C17 witness: a run with auto_repair has returned; it found a duplicate
\* agent_id and an invalid status transition and performed a repair, for
\* another issue.
C17_Witness ==
    /\ RepairRunReturned
    /\ repairs_performed > 0
    /\ \E k \in 1..Len(issues) : issues[k].type = "duplicate_entry"
    /\ \E k \in 1..Len(issues) : issues[k].type = "invalid_status_transition"
    /\ \A c \in 1..Len(repair_calls) :
          issues[repair_calls[c].issue].type \notin NeverRepaired

\* ------------------------------------------------------------------------
\* The State Synchronization Service: documents, store and queue gateways
\* ------------------------------------------------------------------------
sync_interval == 60
stall_timeout == 3600
heartbeat_timeout == 300

\* a Task's metadata map, with the keys the service reads and writes; <<>>
\* and Absent stand for a missing key
Metadata(started_at, reassigned, previous_duration, previous_assignee) ==
    [started_at |-> started_at, reassigned |-> reassigned,
     previous_duration |-> previous_duration, previous_assignee |-> previous_assignee]

NoMetadata == Metadata(<<>>, FALSE, <<>>, Absent)

SyncTask(id, task_id, status, assigned_to, started_at) ==
    [_id |-> id, task_id |-> task_id, status |-> status, assigned_to |-> assigned_to,
     priority |-> "normal", metadata |-> Metadata(started_at, FALSE, <<>>, Absent),
     recovered |-> FALSE]

SyncAgent(id, agent_id, status, last_heartbeat) ==
    [_id |-> id, agent_id |-> agent_id, status |-> status,
     last_heartbeat |-> last_heartbeat, error |-> Absent]

\* the task_assignment message the service builds from a Task
AssignmentMessage(task, priority, reason) ==
    [message_type |-> "task_assignment", task_id |-> task.task_id,
     to_agent |-> IF task.assigned_to = Absent THEN "developer" ELSE task.assigned_to,
     priority |-> priority, recovered |-> reason # "none", recovery_reason |-> reason]

\* MessageBroker.publish_message: the message is appended to the named queue
publish_message(qs, queue_name, message) ==
    [qs EXCEPT ![queue_name] = Append(@, message)]

\* StateManager.log_activity: one more entry in activity_logs
log_activity(s, n, agent_id, activity_type, task_id) ==
    [s EXCEPT !.activity_logs = @ \cup {[_id |-> n, agent_id |-> agent_id,
                                         activity_type |-> activity_type,
                                         task_id |-> task_id]}]

\* an update that sets the metadata field whatever map it is given
update_task_state_always_setting_metadata(s, reachable, task_id, new_state, metadata, n) ==
    LET hit == find_one(s, "tasks", "task_id", task_id)
    IN  IF ~reachable \/ task_id = "" \/ new_state = "" \/ hit = <<>>
        THEN [store |-> s, ok |-> FALSE]
        ELSE [store |-> log_activity(
                  [s EXCEPT !.tasks = (@ \ {hit[1]}) \cup
                      {[hit[1] EXCEPT !.status = new_state, !.metadata = metadata]}],
                  n, "system", "task_state_change", task_id),
              ok |-> TRUE]

\* StateManager.update_task_state: $set status and, `if metadata:`, metadata
\* on the Task with this task_id and log the change; ok is modified_count >
\* 0.  reachable is FALSE when the store is not connected or raises.
update_task_state(s, reachable, task_id, new_state, metadata, n) ==
    LET hit == find_one(s, "tasks", "task_id", task_id)
    IN  IF ~reachable \/ task_id = "" \/ new_state = "" \/ hit = <<>>
        THEN [store |-> s, ok |-> FALSE]
        ELSE [store |-> log_activity(
                  [s EXCEPT !.tasks = (@ \ {hit[1]}) \cup
                      {[hit[1] EXCEPT !.status = new_state,
                                      !.metadata = IF metadata = NoMetadata
                                                   THEN @ ELSE metadata]}],
                  n, "system", "task_state_change", task_id),
              ok |-> TRUE]

\* StateManager.update_agent_state: log the activity, then upsert status and
\* the metadata keys on the AgentState of this agent
update_agent_state(s, reachable, agent_id, status, error, n) ==
    LET hit == find_one(s, "agent_states", "agent_id", agent_id)
        logged == log_activity(s, n, agent_id, "state_update", Absent)
    IN  IF ~reachable THEN s
        ELSE IF hit = <<>>
        THEN [logged EXCEPT !.agent_states = @ \cup
                 {[SyncAgent(n, agent_id, status, <<>>) EXCEPT !.error = error]}]
        ELSE [logged EXCEPT !.agent_states = (@ \ {hit[1]}) \cup
                 {[hit[1] EXCEPT !.status = status, !.error = error]}]

\* StateManager.create_task: insert, None on a duplicate task_id
create_task(s, reachable, task_data) ==
    IF ~reachable \/ find_one(s, "tasks", "task_id", task_data.task_id) # <<>>
    THEN [store |-> s, ok |-> FALSE]
    ELSE [store |-> [s EXCEPT !.tasks = @ \cup {task_data}], ok |-> TRUE]

\* StateManager.get_agent_tasks(agent_id, states)
get_agent_tasks(s, agent_id, states) ==
    Find(s, "tasks", LAMBDA d : d.assigned_to = agent_id /\ d.status \in states)

\* ------------------------------------------------------------------------
\* The State Synchronization Service: detection
\* ------------------------------------------------------------------------
Inconsistency(type, task_id, agent_id, details, severity) ==
    [type |-> type, task_id |-> task_id, agent_id |-> agent_id, details |-> details,
     severity |-> severity, resolved |-> FALSE]

MonitoredQueues == <<"manager-queue", "developer-queue", "work-requests">>

\* _peek_queue_messages: the passive queue_declare only reads the message
\* count, which is logged; the list returned is the empty one it started with
peek_queue_messages(qs, queue_name) == <<>>

get_all_queue_messages(qs) ==
    [q \in QueueNames |-> peek_queue_messages(qs, q)]

get_active_database_tasks(s) ==
    Find(s, "tasks", LAMBDA d : d.status \in {"created", "assigned", "in_progress"})

check_queue_database_consistency(s, qs) ==
    LET queue_messages == get_all_queue_messages(qs)
        db_tasks == get_active_database_tasks(s)
        db_ids == {db_tasks[i].task_id : i \in 1..Len(db_tasks)}
        queue_task_ids ==
            UNION {{queue_messages[q][i].task_id : i \in 1..Len(queue_messages[q])} :
                      q \in QueueNames}
    IN  Collect(MonitoredQueues, LAMBDA q :
            Collect(queue_messages[q], LAMBDA message :
                IF message.task_id \notin db_ids
                THEN <<Inconsistency("task_in_queue_not_database", message.task_id,
                                     message.to_agent,
                                     [queue |-> q, message |-> message], "high")>>
                ELSE <<>>))
        \o
        Collect(db_tasks, LAMBDA task :
            IF task.status = "assigned" /\ task.task_id \notin queue_task_ids
            THEN <<Inconsistency("task_in_database_not_queue", task.task_id,
                                 task.assigned_to, [task |-> task], "medium")>>
            ELSE <<>>)

check_stalled_tasks(s, t) ==
    Collect(Find(s, "tasks", LAMBDA d :
                 /\ d.status = "in_progress"
                 /\ d.metadata.started_at # <<>>
                 /\ d.metadata.started_at[1] < t - stall_timeout),
            LAMBDA task :
        <<Inconsistency("stalled_task", task.task_id, task.assigned_to,
                        [started_at |-> task.metadata.started_at[1],
                         duration |-> t - task.metadata.started_at[1]], "high")>>)

check_agent_health(s, t) ==
    Collect(<<"manager", "developer">>, LAMBDA agent_id :
        LET agent_state == find_one(s, "agent_states", "agent_id", agent_id)
        IN  IF /\ agent_state # <<>>
               /\ agent_state[1].last_heartbeat # <<>>
               /\ agent_state[1].last_heartbeat[1] < t - heartbeat_timeout
            THEN <<Inconsistency("agent_unresponsive", None, agent_id,
                                 [last_heartbeat |-> agent_state[1].last_heartbeat[1],
                                  status |-> agent_state[1].status], "critical")>>
            ELSE <<>>)

\* ------------------------------------------------------------------------
\* The State Synchronization Service: resolution
\* ------------------------------------------------------------------------
\* MessageBroker.DEVELOPER_QUEUE if task.get('assigned_to') == 'developer'
\* else MessageBroker.MANAGER_QUEUE
target_queue(task) ==
    IF task.assigned_to = "developer" THEN "developer-queue" ELSE "manager-queue"

Resolution(s, qs, ok) == [store |-> s, queues |-> qs, ok |-> ok]

\* reachable: the store answers during this resolution; published: the
\* broker accepts the message; n: the number the new documents are given
resolve_orphaned_message(inc, s, qs, reachable, n) ==
    LET message == inc.details.message
        task_data == [_id |-> n, task_id |-> message.task_id, status |-> "assigned",
                      assigned_to |-> message.to_agent, priority |-> message.priority,
                      metadata |-> NoMetadata, recovered |-> TRUE]
        made == create_task(s, reachable, task_data)
    IN  Resolution(made.store, qs, made.ok)

\* a resolution that reports the Task re-queued and publishes nothing
resolve_missing_queue_message_without_publish(inc, s, qs, published) ==
    Resolution(s, qs, published)

resolve_missing_queue_message(inc, s, qs, published) ==
    LET task == inc.details.task
        message == AssignmentMessage(task, task.priority, "missing_queue_message")
    IN  IF published
        THEN Resolution(s, publish_message(qs, target_queue(task), message), TRUE)
        ELSE Resolution(s, qs, FALSE)

\* a resolution that reports success as soon as the status reset succeeded
resolve_stalled_task_reporting_reset(inc, s, qs, reachable, published, n) ==
    LET upd == update_task_state(s, reachable, inc.task_id, "assigned",
                                 Metadata(<<>>, TRUE, <<inc.details.duration>>, Absent), n)
        task == find_one(upd.store, "tasks", "task_id", inc.task_id)
    IN  IF upd.ok /\ task # <<>> /\ published
        THEN Resolution(upd.store,
                        publish_message(qs, target_queue(task[1]),
                                        AssignmentMessage(task[1], "high", "stalled_task")),
                        TRUE)
        ELSE Resolution(upd.store, qs, upd.ok)

resolve_stalled_task(inc, s, qs, reachable, published, n) ==
    LET upd == update_task_state(s, reachable, inc.task_id, "assigned",
                                 Metadata(<<>>, TRUE, <<inc.details.duration>>, Absent), n)
        task == find_one(upd.store, "tasks", "task_id", inc.task_id)
    IN  IF upd.ok /\ task # <<>> /\ published
        THEN Resolution(upd.store,
                        publish_message(qs, target_queue(task[1]),
                                        AssignmentMessage(task[1], "high", "stalled_task")),
                        TRUE)
        ELSE Resolution(upd.store, qs, FALSE)

\* `for task in active_tasks: update_task_state(task_id, 'created', {...})`
RECURSIVE reassign_tasks(_, _, _, _, _)
reassign_tasks(s, reachable, tasks, agent_id, n) ==
    IF tasks = <<>> THEN s
    ELSE reassign_tasks(
             update_task_state(s, reachable, Head(tasks).task_id, "created",
                               Metadata(<<>>, FALSE, <<>>, agent_id), n).store,
             reachable, Tail(tasks), agent_id, n + 1)

resolve_unresponsive_agent(inc, s, qs, reachable, n) ==
    LET marked == update_agent_state(s, reachable, inc.agent_id, "error",
                                     "unresponsive", n)
        active_tasks == IF reachable
                        THEN get_agent_tasks(marked, inc.agent_id,
                                             {"assigned", "in_progress"})
                        ELSE <<>>
    IN  Resolution(reassign_tasks(marked, reachable, active_tasks, inc.agent_id, n + 1),
                   qs, TRUE)

resolve_inconsistency(inc, s, qs, reachable, published, n) ==
    CASE inc.type = "task_in_queue_not_database" ->
           resolve_orphaned_message(inc, s, qs, reachable, n)
      [] inc.type = "task_in_database_not_queue" ->
           resolve_missing_queue_message(inc, s, qs, published)
      [] inc.type = "stalled_task" ->
           resolve_stalled_task(inc, s, qs, reachable, published, n)
      [] inc.type = "agent_unresponsive" ->
           resolve_unresponsive_agent(inc, s, qs, reachable, n)
      [] OTHER -> Resolution(s, qs, FALSE)

\* ------------------------------------------------------------------------
\* The State Synchronization Service: perform_sync and the sync loop
\* ------------------------------------------------------------------------
MaxPasses == 2         \* perform_sync calls in one behaviour

\* `while self.running:` of _sync_loop taken, and perform_sync up to its loop
\* over the inconsistencies: the three checks
perform_sync ==
    /\ spc = "idle"
    /\ sync_running
    /\ passes < MaxPasses
    /\ passes' = passes + 1
    /\ LET found == (check_queue_database_consistency(store, queues)
                        \o check_stalled_tasks(store, now))
                        \o check_agent_health(store, now)
       IN  /\ inconsistencies' = found
           /\ results' = [inconsistencies_found |-> Len(found),
                          inconsistencies_resolved |-> 0]
           /\ spc' = IF found = <<>> THEN "finish" ELSE "resolve"
    /\ previous_pass' = inconsistencies
    /\ pass_start' = [store |-> store, queues |-> queues]
    /\ sposition' = 1
    /\ UNCHANGED <<store, coordVars, agentVars, checkerVars, recoveryVars, sync_running, queues, now,
                   sync_status>>

\* `if self.resolve_inconsistency(inconsistency): resolved += 1`
ResolveInconsistency ==
    /\ spc = "resolve"
    /\ \E reachable \in BOOLEAN, published \in BOOLEAN :
          LET r == resolve_inconsistency(inconsistencies[sposition], store, queues,
                                         reachable, published,
                                         1000 * passes + 10 * sposition)
          IN  /\ store' = r.store
              /\ queues' = r.queues
              /\ inconsistencies' = [inconsistencies EXCEPT ![sposition].resolved = r.ok]
              /\ results' = [results EXCEPT !.inconsistencies_resolved =
                                 IF r.ok THEN @ + 1 ELSE @]
    /\ sposition' = sposition + 1
    /\ spc' = IF sposition = Len(inconsistencies) THEN "finish" ELSE "resolve"
    /\ UNCHANGED <<coordVars, agentVars, checkerVars, recoveryVars, sync_running, now, passes, previous_pass, pass_start,
                   sync_status>>

\* _update_sync_status, the return of perform_sync and the sleep of the loop
FinishSync ==
    /\ spc = "finish"
    /\ sync_status' = <<[inconsistencies_found |-> results.inconsistencies_found,
                         inconsistencies_resolved |-> results.inconsistencies_resolved,
                         status |-> "healthy"]>>
    /\ now' = now + sync_interval
    /\ spc' = "idle"
    /\ UNCHANGED <<store, coordVars, agentVars, checkerVars, recoveryVars, sync_running, queues,
                   inconsistencies, sposition,
                   results, passes, previous_pass, pass_start>>

\* ------------------------------------------------------------------------
\* The stores and queues the service is run on
\* ------------------------------------------------------------------------
Stalled == <<StartTime - 4000>>
Recent == <<StartTime - 100>>

SyncFirstTasks ==
    { {},
      {SyncTask(1, "T1", "assigned", "developer", <<>>)},
      {SyncTask(1, "T1", "assigned", "manager", <<>>)},
      {SyncTask(1, "T1", "in_progress", "developer", Stalled)},
      {SyncTask(1, "T1", "in_progress", "developer", Recent)},
      {SyncTask(1, "T1", "completed", "developer", Recent)} }

SyncSecondTasks ==
    { {},
      {SyncTask(2, "T2", "in_progress", "manager", Stalled)},
      {SyncTask(2, "T2", "created", Absent, <<>>)} }

SyncAgentSets ==
    { {},
      {SyncAgent(11, "manager", "working", <<StartTime - 400>>),
       SyncAgent(12, "developer", "working", Recent)},
      {SyncAgent(11, "manager", "ready", <<>>),
       SyncAgent(12, "developer", "working", <<StartTime - 400>>)} }

QueuedAssignment(task_id, agent_id) ==
    [message_type |-> "task_assignment", task_id |-> task_id, to_agent |-> agent_id,
     priority |-> "normal", recovered |-> FALSE, recovery_reason |-> "none"]

SyncQueues ==
    { [q \in QueueNames |-> <<>>],
      [q \in QueueNames |->
          IF q = "developer-queue" THEN <<QueuedAssignment("T1", "developer")>> ELSE <<>>],
      [q \in QueueNames |->
          IF q = "manager-queue" THEN <<QueuedAssignment("T2", "manager")>> ELSE <<>>] }

SyncStores ==
    {[tasks |-> first \cup second, agent_states |-> agents, activity_logs |-> {},
      archived_tasks |-> {}] :
        first \in SyncFirstTasks, second \in SyncSecondTasks, agents \in SyncAgentSets}

SyncSpecInit ==
    /\ store \in SyncStores
    /\ CoordinatorInit
    /\ AgentInit
    /\ CheckerInit
    /\ \E qs \in SyncQueues : SyncInitWith(qs)
    /\ RecoveryInit

SyncNext ==
    \/ perform_sync
    \/ ResolveInconsistency
    \/ FinishSync

SyncSpec == SyncSpecInit /\ [][SyncNext]_vars

\* ------------------------------------------------------------------------
\* Claims about the State Synchronization Service
\* ------------------------------------------------------------------------
\* the messages a queue map holds, over all queues
QueuedMessages(qs) ==
    UNION {{qs[q][i] : i \in 1..Len(qs[q])} : q \in QueueNames}

MessagesFor(qs, task_id) ==
    {<<q, i>> \in QueueNames \X (1..MaxPasses + 3) :
        i <= Len(qs[q]) /\ qs[q][i].task_id = task_id}

\* the checks of the current pass have run
Detected == passes >= 1 /\ spc \in {"resolve", "finish"}

SameCase(a, b) ==
    a.type = b.type /\ a.task_id = b.task_id /\ a.agent_id = b.agent_id

\* C18: a sync pass that follows, with no other change to the store or the
\* queues, a pass that resolved a case detects nothing for that case again.
C18_ResolutionIdempotent ==
    (Detected /\ passes >= 2) =>
        \A i \in 1..Len(previous_pass) :
            previous_pass[i].resolved =>
                \A j \in 1..Len(inconsistencies) :
                    ~SameCase(inconsistencies[j], previous_pass[i])

\* a task_assignment message queued when the pass started whose task_id had
\* no Task in the store
Orphans ==
    {m \in QueuedMessages(pass_start.queues) :
        /\ m.message_type = "task_assignment"
        /\ \A d \in pass_start.store.tasks : d.task_id # m.task_id}

\* C19: a queued task_assignment message whose task_id has no Task in the
\* store is detected by the sync pass, and once resolved there is a Task with
\* that task_id, status assigned and recovered = true.
C19_OrphanedMessageRecovered ==
    Detected =>
        \A m \in Orphans :
            \E i \in 1..Len(inconsistencies) :
                /\ inconsistencies[i].type = "task_in_queue_not_database"
                /\ inconsistencies[i].task_id = m.task_id
                /\ inconsistencies[i].resolved =>
                       \E d \in store.tasks :
                           /\ d.task_id = m.task_id
                           /\ d.status = "assigned"
                           /\ d.recovered = TRUE

Flagged(task_id) ==
    \E i \in 1..Len(inconsistencies) :
        /\ inconsistencies[i].type = "task_in_database_not_queue"
        /\ inconsistencies[i].task_id = task_id

\* C20: a Task with status assigned is flagged as record-without-message
\* exactly when no message with its task_id is in the queues, and a Task whose
\* message is still queued gets no further message published.
C20_MissingMessageFlagged ==
    Detected =>
        \A d \in pass_start.store.tasks :
            d.status = "assigned" =>
                /\ Flagged(d.task_id) <=> MessagesFor(pass_start.queues, d.task_id) = {}
                /\ MessagesFor(pass_start.queues, d.task_id) # {} =>
                       Cardinality(MessagesFor(queues, d.task_id)) =
                           Cardinality(MessagesFor(pass_start.queues, d.task_id))

\* the resolution step of the inconsistency at sposition is about to run
Resolving(type) ==
    spc = "resolve" /\ inconsistencies[sposition].type = type

TasksWith(s, task_id) == {d \in s.tasks : d.task_id = task_id}

\* the Tasks that were in_progress longer than the stall threshold when the
\* pass started
StalledAtStart ==
    {d \in pass_start.store.tasks :
        /\ d.status = "in_progress"
        /\ d.metadata.started_at # <<>>
        /\ now - d.metadata.started_at[1] > stall_timeout}

FlaggedStalled ==
    {inconsistencies[i].task_id : i \in {j \in 1..Len(inconsistencies) :
                                            inconsistencies[j].type = "stalled_task"}}

\* the resolution step published exactly one message, to queue q
PublishedOne(q, message) ==
    /\ queues'[q] = Append(queues[q], message)
    /\ \A other \in QueueNames \ {q} : queues'[other] = queues[other]

UnresponsiveAtStart ==
    {a.agent_id : a \in {d \in pass_start.store.agent_states :
        /\ d.agent_id \in {"manager", "developer"}
        /\ d.last_heartbeat # <<>>
        /\ now - d.last_heartbeat[1] > heartbeat_timeout}}

FlaggedUnresponsive ==
    {inconsistencies[i].agent_id : i \in {j \in 1..Len(inconsistencies) :
                                             inconsistencies[j].type = "agent_unresponsive"}}

\* the resolution step has marked the agent: its AgentState has status error
MarkedError(agent_id) ==
    \E a \in store'.agent_states : a.agent_id = agent_id /\ a.status = "error"

\* C22: an agent whose last_heartbeat is older than the timeout is flagged
\* agent_unresponsive, and after a resolution that marked its AgentState
\* error every Task that was assigned to or in progress under the agent has
\* status created and no assigned_to.
C22_UnresponsiveAgentResolved ==
    /\ [](Detected => FlaggedUnresponsive = UnresponsiveAtStart)
    /\ [][Resolving("agent_unresponsive") =>
            LET inc == inconsistencies[sposition]
            IN  (inconsistencies'[sposition].resolved /\ MarkedError(inc.agent_id)) =>
                     \A d \in store.tasks :
                        (d.assigned_to = inc.agent_id
                           /\ d.status \in {"assigned", "in_progress"}) =>
                            \A e \in TasksWith(store', d.task_id) :
                                e.status = "created" /\ e.assigned_to = Absent]_vars

\* ------------------------------------------------------------------------
\* The Recovery Manager: components, actions and the action queue
\* ------------------------------------------------------------------------
max_retries == 3          \* RecoveryAction.max_retries
max_attempts == 5         \* db_retry_config['max_attempts']
initial_delay == 1        \* db_retry_config['initial_delay']
max_delay == 60           \* db_retry_config['max_delay']
backoff_factor == 2       \* db_retry_config['backoff_factor']

MaxAttempts == 4          \* execute_recovery_action calls in one behaviour
MaxLoopErrors == 1        \* exceptions reaching the boundary of one loop

Min2(a, b) == IF a < b THEN a ELSE b

AgentComponents == {"manager_agent", "developer_agent"}

\* components[name]['critical']
critical(component) == component \in {"mongodb", "rabbitmq"}

\* id stands for the identity of the Python object
RecoveryAction(id, component, action, priority) ==
    [id |-> id, component |-> component, action |-> action, priority |-> priority,
     retry_count |-> 0, max_retries |-> max_retries]

\* components[name]['check_func'](): an agent's check reads the agent's
\* heartbeat from the store, so it fails when the store does
check_component(component, h) ==
    IF component \in AgentComponents THEN h["mongodb"] /\ h[component]
    ELSE h[component]

\* priority=1 if component['critical'] else 3
restart_priority(component) == IF critical(component) THEN 1 ELSE 3

\* queue_recovery_action: skip when an action with the same component and
\* the same action is queued
queue_recovery_action(queue, action) ==
    IF \E i \in 1..Len(queue) :
          queue[i].component = action.component /\ queue[i].action = action.action
    THEN queue
    ELSE Append(queue, action)

\* recovery_queue.sort(key=lambda x: x.priority): a stable sort
sort_by_priority(queue) ==
    Flatten([p \in 1..5 |-> SelectSeq(queue, LAMBDA a : a.priority = p)])

\* ------------------------------------------------------------------------
\* The Recovery Manager: the monitor loop
\* ------------------------------------------------------------------------
workerVars == <<wpc, current, recovery_history, backoffs, permanent, stop_signals,
                alerts, disabled, popen_calls, reconnect, healthy>>

\* a monitor loop that starts its next health check without reading the flag
MonitorStartIgnoringFlag ==
    /\ mpc = "idle"
    /\ mpc' = "checking"
    /\ mposition' = 1
    /\ UNCHANGED <<store, coordVars, agentVars, checkerVars, syncVars, running, recovery_queue,
                   next_id, loop_errors, workerVars>>

\* `while self.running:` taken, check_system_health entered
MonitorStart ==
    /\ mpc = "idle"
    /\ running
    /\ mpc' = "checking"
    /\ mposition' = 1
    /\ UNCHANGED <<store, coordVars, agentVars, checkerVars, syncVars, running, recovery_queue,
                   next_id, loop_errors, workerVars>>

\* one turn of `for name, component in self.components.items()`
CheckComponent ==
    /\ mpc = "checking"
    /\ LET name == Components[mposition]
           action == RecoveryAction(next_id, name, "restart", restart_priority(name))
           queued == queue_recovery_action(recovery_queue, action)
       IN  IF check_component(name, healthy)
           THEN UNCHANGED <<recovery_queue, next_id>>
           ELSE /\ recovery_queue' = queued
                /\ next_id' = IF queued = recovery_queue THEN next_id ELSE next_id + 1
    /\ mposition' = mposition + 1
    /\ mpc' = IF mposition = Len(Components) THEN "idle" ELSE "checking"
    /\ UNCHANGED <<store, coordVars, agentVars, checkerVars, syncVars, running, loop_errors,
                   workerVars>>

\* a loop whose handler would let the exception end the thread
exit_on_iteration_error == "stopped"

\* `except Exception as e:` inside `while self.running:`: the error is
\* logged, the thread sleeps and stands at the top of its loop again
after_iteration_error == "idle"

\* an exception leaves check_system_health: `except Exception`, sleep(5)
MonitorIterationRaises ==
    /\ mpc = "checking"
    /\ loop_errors["monitor"] < MaxLoopErrors
    /\ loop_errors' = [loop_errors EXCEPT !["monitor"] = @ + 1]
    /\ mpc' = after_iteration_error
    /\ UNCHANGED <<store, coordVars, agentVars, checkerVars, syncVars, running, recovery_queue,
                   next_id, mposition, workerVars>>

\* `while self.running:` not taken
MonitorExits ==
    /\ mpc = "idle"
    /\ ~running
    /\ mpc' = "stopped"
    /\ UNCHANGED <<store, coordVars, agentVars, checkerVars, syncVars, running, recovery_queue,
                   next_id, mposition, loop_errors, workerVars>>

\* ------------------------------------------------------------------------
\* The Recovery Manager: the recovery worker and execute_recovery_action
\* ------------------------------------------------------------------------
monitorVars == <<mpc, mposition, next_id>>

\* `if self.recovery_queue:` taken, the queue sorted
WorkerSort ==
    /\ wpc = "idle"
    /\ running
    /\ recovery_queue # <<>>
    /\ Len(recovery_history) < MaxAttempts
    /\ recovery_queue' = sort_by_priority(recovery_queue)
    /\ wpc' = "sorted"
    /\ UNCHANGED <<store, coordVars, agentVars, checkerVars, syncVars, running, monitorVars,
                   loop_errors, current, recovery_history, backoffs, permanent,
                   stop_signals, alerts, disabled, popen_calls, reconnect, healthy>>

\* action = self.recovery_queue.pop(0); execute_recovery_action records the
\* attempt as started
WorkerTake ==
    /\ wpc = "sorted"
    /\ LET action == Head(recovery_queue)
       IN  /\ current' = <<action>>
           /\ recovery_history' = Append(recovery_history,
                  [id |-> action.id, component |-> action.component,
                   action |-> action.action, status |-> "started"])
           /\ wpc' = IF action.action = "reconnect" /\ critical(action.component)
                     THEN "reconnect" ELSE "execute"
           /\ reconnect' = [attempt |-> 0, delay |-> initial_delay, waits |-> <<>>]
    /\ recovery_queue' = Tail(recovery_queue)
    /\ UNCHANGED <<store, coordVars, agentVars, checkerVars, syncVars, running, monitorVars,
                   loop_errors, backoffs, permanent, stop_signals, alerts, disabled,
                   popen_calls, healthy>>

\* an exception reaches the worker's `except Exception`: sleep(5)
WorkerIterationRaises ==
    /\ wpc = "sorted"
    /\ loop_errors["worker"] < MaxLoopErrors
    /\ loop_errors' = [loop_errors EXCEPT !["worker"] = @ + 1]
    /\ wpc' = after_iteration_error
    /\ UNCHANGED <<store, coordVars, agentVars, checkerVars, syncVars, running, monitorVars,
                   recovery_queue, current, recovery_history, backoffs, permanent,
                   stop_signals, alerts, disabled, popen_calls, reconnect, healthy>>

\* a budget that allows one more attempt than max_retries
within_retry_budget_inclusive(action) == action.retry_count <= action.max_retries

\* if action.retry_count < action.max_retries
under_retry_budget(action) == action.retry_count < action.max_retries

\* time.sleep(min(2 ** action.retry_count, 60))
backoff_seconds(action) == Min2(2 ^ action.retry_count, 60)

\* _enter_safe_mode: _stop_agent for both agents, then the critical alert
safe_mode_stops == <<"manager_agent", "developer_agent">>

\* _handle_permanent_failure
handle_permanent_failure(action) ==
    IF action.component \in {"mongodb", "rabbitmq"}
    THEN /\ stop_signals' = stop_signals \o safe_mode_stops
         /\ alerts' = Append(alerts, "critical")
         /\ UNCHANGED disabled
    ELSE /\ disabled' = Append(disabled, action.component)
         /\ UNCHANGED <<stop_signals, alerts>>

\* execute_recovery_action after the restart/reconnect/failover call
\* returned `success`
Conclude(action, success) ==
    /\ recovery_history' = [recovery_history EXCEPT ![Len(recovery_history)].status =
                               IF success THEN "success" ELSE "failed"]
    /\ IF success
       THEN /\ wpc' = "idle"
            /\ current' = <<>>
            /\ UNCHANGED <<backoffs, permanent, stop_signals, alerts, disabled>>
       ELSE LET failed_action == [action EXCEPT !.retry_count = @ + 1]
            IN  IF under_retry_budget(failed_action)
                THEN /\ wpc' = "backoff"
                     /\ current' = <<failed_action>>
                     /\ backoffs' = Append(backoffs,
                            [id |-> action.id,
                             retry_count |-> failed_action.retry_count,
                             seconds |-> backoff_seconds(failed_action)])
                     /\ UNCHANGED <<permanent, stop_signals, alerts, disabled>>
                ELSE /\ wpc' = "idle"
                     /\ current' = <<>>
                     /\ permanent' = Append(permanent, failed_action)
                     /\ handle_permanent_failure(failed_action)
                     /\ UNCHANGED backoffs

\* restart_func(): what the restart leaves behind and what its final check
\* returns.  A store or queue restart ends with the component up or down; an
\* agent restart starts a process unless Popen raises, and the new process
\* has a fresh heartbeat or not when it is checked.
RestartOutcomes(component) ==
    IF critical(component)
    THEN {[healthy |-> [healthy EXCEPT ![component] = up], started |-> FALSE,
           success |-> up] : up \in BOOLEAN}
    ELSE {[healthy |-> healthy, started |-> FALSE, success |-> FALSE]} \cup
         {[healthy |-> [healthy EXCEPT ![component] = fresh], started |-> TRUE,
           success |-> healthy["mongodb"] /\ fresh] : fresh \in BOOLEAN}

\* the branch on action.action for restart and failover, and for a
\* reconnect of a component that has no reconnect function
ExecuteAction ==
    /\ wpc = "execute"
    /\ LET action == current[1]
       IN  IF action.action = "restart"
           THEN \E o \in RestartOutcomes(action.component) :
                   /\ healthy' = o.healthy
                   /\ popen_calls' = IF o.started
                                     THEN Append(popen_calls, action.component)
                                     ELSE popen_calls
                   /\ Conclude(action, o.success)
           ELSE /\ UNCHANGED <<healthy, popen_calls>>
                /\ Conclude(action, FALSE)
    /\ UNCHANGED <<store, coordVars, agentVars, checkerVars, syncVars, running, monitorVars,
                   loop_errors, recovery_queue, reconnect>>

\* self.recovery_queue.append(action) after the backoff sleep
WorkerRequeue ==
    /\ wpc = "backoff"
    /\ recovery_queue' = Append(recovery_queue, current[1])
    /\ current' = <<>>
    /\ wpc' = "idle"
    /\ UNCHANGED <<store, coordVars, agentVars, checkerVars, syncVars, running, monitorVars,
                   loop_errors, recovery_history, backoffs, permanent, stop_signals,
                   alerts, disabled, popen_calls, reconnect, healthy>>

WorkerExits ==
    /\ wpc = "idle"
    /\ ~running
    /\ wpc' = "stopped"
    /\ UNCHANGED <<store, coordVars, agentVars, checkerVars, syncVars, running, monitorVars,
                   loop_errors, recovery_queue, current, recovery_history, backoffs,
                   permanent, stop_signals, alerts, disabled, popen_calls, reconnect,
                   healthy>>

\* ------------------------------------------------------------------------
\* The Recovery Manager: _reconnect_mongodb and _reconnect_rabbitmq
\* ------------------------------------------------------------------------
\* a loop that makes one attempt more than max_attempts
attempts_left_inclusive(r) == r.attempt <= max_attempts

\* while attempt < self.db_retry_config['max_attempts']
attempts_left(r) == r.attempt < max_attempts

\* delay = min(delay * backoff_factor, max_delay)
next_delay(delay) == Min2(delay * backoff_factor, max_delay)

\* one turn of the while loop, or its exit with `return False`
ReconnectAttempt ==
    /\ wpc = "reconnect"
    /\ LET action == current[1]
       IN  IF attempts_left(reconnect)
           THEN \E connected \in BOOLEAN :
                   /\ healthy' = [healthy EXCEPT ![action.component] = connected]
                   /\ IF connected
                      THEN /\ Conclude(action, TRUE)
                           /\ UNCHANGED reconnect
                      ELSE /\ reconnect' = [attempt |-> reconnect.attempt + 1,
                                            delay |-> next_delay(reconnect.delay),
                                            waits |-> Append(reconnect.waits,
                                                             reconnect.delay)]
                           /\ UNCHANGED <<wpc, current, recovery_history, backoffs,
                                          permanent, stop_signals, alerts, disabled>>
           ELSE /\ Conclude(action, FALSE)
                /\ UNCHANGED <<healthy, reconnect>>
    /\ UNCHANGED <<store, coordVars, agentVars, checkerVars, syncVars, running, monitorVars,
                   loop_errors, recovery_queue, popen_calls>>

\* a caller of queue_recovery_action asks for a reconnect of the store or of
\* the queue
RequestReconnect ==
    /\ running
    /\ Len(recovery_history) < MaxAttempts
    /\ \E component \in {"mongodb", "rabbitmq"} :
          LET action == RecoveryAction(next_id, component, "reconnect", 2)
              queued == queue_recovery_action(recovery_queue, action)
          IN  /\ queued # recovery_queue
              /\ recovery_queue' = queued
    /\ next_id' = next_id + 1
    /\ UNCHANGED <<store, coordVars, agentVars, checkerVars, syncVars, running, mpc, mposition,
                   loop_errors, workerVars>>

\* the outside world: a component that answered its check stops answering.
\* Outages are drawn up to the first recovery attempt; later changes of
\* health are the outcomes of the restarts.
ComponentFails ==
    /\ recovery_history = <<>>
    /\ \E component \in {"mongodb", "rabbitmq"} :
          /\ healthy[component]
          /\ healthy' = [healthy EXCEPT ![component] = FALSE]
    /\ UNCHANGED <<store, coordVars, agentVars, checkerVars, syncVars, running, monitorVars,
                   recovery_queue, loop_errors, wpc, current, recovery_history,
                   backoffs, permanent, stop_signals, alerts, disabled, popen_calls,
                   reconnect>>

\* RecoveryManager.stop(): the flag both loops read at their top
StopRecovery ==
    /\ running
    /\ running' = FALSE
    /\ UNCHANGED <<store, coordVars, agentVars, checkerVars, syncVars, monitorVars,
                   recovery_queue, loop_errors, workerVars>>

\* ------------------------------------------------------------------------
\* The Recovery Manager as started by start()
\* ------------------------------------------------------------------------
Down(components) == [c \in ComponentNames |-> c \notin components]

HealthStates ==
    {Down({"mongodb"}), Down({"rabbitmq"}), Down({"manager_agent"}),
     Down({"rabbitmq", "manager_agent"})}

RecoverySpecInit ==
    /\ store = EmptyStore
    /\ CoordinatorInit
    /\ AgentInit
    /\ CheckerInit
    /\ SyncInit
    /\ \E h \in HealthStates : RecoveryInitWith(h)

RecoveryNext ==
    \/ MonitorStart
    \/ CheckComponent
    \/ WorkerSort
    \/ WorkerTake
    \/ ExecuteAction
    \/ WorkerRequeue
    \/ ComponentFails

RecoverySpec == RecoverySpecInit /\ [][RecoveryNext]_vars

\* ------------------------------------------------------------------------
\* Claims about the Recovery Manager
\* ------------------------------------------------------------------------
\* C23: the recovery action queue never holds two actions with the same
\* component and the same action.
C23_NoDuplicateActions ==
    \A i \in 1..Len(recovery_queue) : \A j \in 1..Len(recovery_queue) :
        (i # j) => ~(/\ recovery_queue[i].component = recovery_queue[j].component
                     /\ recovery_queue[i].action = recovery_queue[j].action)

\* the worker takes the action at the head of the queue
Takes == wpc = "sorted" /\ wpc' # "sorted" /\ current' # <<>>

\* C24: whenever the worker takes an action, no action left in the queue has
\* a numerically smaller priority; priority 1 is carried only by actions for
\* components marked critical.
C24_PriorityOrder ==
    /\ [](\A i \in 1..Len(recovery_queue) :
            recovery_queue[i].priority = 1 => critical(recovery_queue[i].component))
    /\ [][Takes =>
            \A i \in 1..Len(recovery_queue') :
                recovery_queue'[i].priority >= current'[1].priority]_vars

\* the ids of the RecoveryAction objects constructed so far
ActionIds == 1..(next_id - 1)

Failures(id) ==
    Cardinality({i \in 1..Len(recovery_history) :
                    recovery_history[i].id = id /\ recovery_history[i].status = "failed"})

\* the status of the latest attempt recorded for the action, "none" if none
LastStatus(id) ==
    LET entries == {i \in 1..Len(recovery_history) : recovery_history[i].id = id}
    IN  IF entries = {} THEN "none"
        ELSE recovery_history[CHOOSE i \in entries : \A j \in entries : j <= i].status

BackoffsOf(id) == {i \in 1..Len(backoffs) : backoffs[i].id = id}

PermanentOf(id) == {i \in 1..Len(permanent) : permanent[i].id = id}

\* the places an action object can be: in the queue or in the worker's hands
Held ==
    {recovery_queue[i] : i \in 1..Len(recovery_queue)} \cup
    {current[i] : i \in 1..Len(current)}

\* C25: an action's retry counter counts its failed attempts; each failure
\* that leaves the counter under max_retries is followed by a sleep of
\* min(2^retry_count, 60) seconds and a re-enqueue; the max_retries-th
\* failure declares the action a permanent failure, once, and the action is
\* not enqueued again.
C25_RetryBudget ==
    /\ \A a \in Held : a.retry_count = Failures(a.id)
    /\ \A i \in 1..Len(backoffs) :
          /\ backoffs[i].retry_count < max_retries
          /\ backoffs[i].seconds = Min2(2 ^ backoffs[i].retry_count, 60)
    /\ \A id \in ActionIds :
          /\ Failures(id) <= max_retries
          /\ Cardinality(BackoffsOf(id)) = Min2(Failures(id), max_retries - 1)
          /\ Cardinality(PermanentOf(id)) = IF Failures(id) = max_retries THEN 1 ELSE 0
          /\ PermanentOf(id) # {} => \A a \in Held : a.id # id
          /\ (Failures(id) \in 1..(max_retries - 1) /\ LastStatus(id) = "failed") =>
                 \E a \in Held : a.id = id

C25_Witness ==
    \E id \in ActionIds :
        /\ PermanentOf(id) # {}
        /\ Failures(id) = max_retries
        /\ Cardinality(BackoffsOf(id)) = max_retries - 1

\* the finished restart attempts recorded for a component, oldest first
RestartAttempts(history, component) ==
    SelectSeq(history, LAMBDA e : /\ e.component = component
                                  /\ e.action = "restart"
                                  /\ e.status # "started")

\* the last three restart attempts for the component all failed
ThreeConsecutiveFailures(history, component) ==
    LET tries == RestartAttempts(history, component)
    IN  /\ Len(tries) >= max_retries
        /\ \A k \in (Len(tries) - max_retries + 1)..Len(tries) : tries[k].status = "failed"

\* C26: once the last three restart attempts for a critical component have
\* all failed the Recovery Manager has entered safe mode; entering safe mode
\* signals both agent processes to stop and raises one critical alert, and
\* happens in no step other than a third consecutive failed restart of a
\* critical component.
C26_SafeModeEntry ==
    /\ [](\A component \in {"mongodb", "rabbitmq"} :
            ThreeConsecutiveFailures(recovery_history, component) => alerts # <<>>)
    /\ [][alerts' # alerts =>
            /\ alerts' = Append(alerts, "critical")
            /\ stop_signals' = stop_signals \o <<"manager_agent", "developer_agent">>
            /\ \E component \in {"mongodb", "rabbitmq"} :
                  /\ recovery_history'[Len(recovery_history')].component = component
                  /\ ThreeConsecutiveFailures(recovery_history', component)]_vars

DisabledComponents == {disabled[i] : i \in 1..Len(disabled)}

\* the monitor loop constructs and enqueues a new action in this step
Enqueues(component) ==
    /\ next_id' = next_id + 1
    /\ \E i \in 1..Len(recovery_queue') :
          /\ recovery_queue'[i].id = next_id
          /\ recovery_queue'[i].component = component

\* C27: once a non-critical component has been declared a permanent failure
\* and disabled, no health-check iteration enqueues a recovery action for it.
C27_DisabledNotQueued ==
    [][\A component \in DisabledComponents : ~Enqueues(component)]_vars

\* the critical components whose permanent failure put the system in safe mode
SafeModeCauses ==
    {permanent[i].component : i \in {j \in 1..Len(permanent) :
                                        critical(permanent[j].component)}}

\* C28: once safe mode is entered, the Recovery Manager starts no agent
\* process while the critical component that failed is still unhealthy.
C28_SafeModeHolds ==
    [][(\E component \in SafeModeCauses : ~healthy[component]) =>
           popen_calls' = popen_calls]_vars

\* ------------------------------------------------------------------------
\* Reconnect actions handed to the Recovery Manager
\* ------------------------------------------------------------------------
ReconnectSpecInit ==
    /\ store = EmptyStore
    /\ CoordinatorInit
    /\ AgentInit
    /\ CheckerInit
    /\ SyncInit
    /\ \E h \in {Down({"mongodb"}), Down({"rabbitmq"}), Down({"mongodb", "rabbitmq"})} :
          RecoveryInitWith(h)

ReconnectNext ==
    \/ RequestReconnect
    \/ WorkerSort
    \/ WorkerTake
    \/ ReconnectAttempt
    \/ WorkerRequeue

ReconnectSpec == ReconnectSpecInit /\ [][ReconnectNext]_vars

\* the worker thread is scheduled: a running reconnect call takes its next turn
ReconnectLiveSpec == ReconnectSpec /\ WF_vars(ReconnectAttempt)

\* the delay of the k-th wait of a reconnect call without jitter
PlainDelay(k) == Min2(initial_delay * backoff_factor ^ (k - 1), max_delay)

\* what every reconnect call keeps to: at most max_attempts attempts, no wait
\* longer than max_delay, the action's retry counter untouched while the
\* call runs
ReconnectBounded ==
    /\ reconnect.attempt <= max_attempts
    /\ Len(reconnect.waits) = reconnect.attempt
    /\ \A k \in 1..Len(reconnect.waits) : reconnect.waits[k] <= max_delay
    /\ wpc = "reconnect" => current[1].retry_count = Failures(current[1].id)

\* an attempt that connects ends the call with success, and the call returns
\* failure only after max_attempts failed attempts
ReconnectReturns ==
    (wpc = "reconnect" /\ (reconnect' # reconnect \/ wpc' # "reconnect")) =>
        /\ (healthy'[current[1].component] /\ attempts_left(reconnect)) =>
              /\ wpc' = "idle"
              /\ recovery_history'[Len(recovery_history')].status = "success"
        /\ recovery_history'[Len(recovery_history')].status = "failed" =>
              reconnect.attempt = max_attempts

\* C29 as stated: the reconnect loop is bounded, returns at the first attempt
\* that connects, never waits longer than max_delay, terminates, and its
\* delays are jittered: the delays a call has slept are not all equal to the
\* plain exponential value.
C29_Original ==
    /\ [](ReconnectBounded)
    /\ [][ReconnectReturns]_vars
    /\ (wpc = "reconnect") ~> (wpc # "reconnect")
    /\ [](reconnect.waits # <<>> =>
             \E k \in 1..Len(reconnect.waits) : reconnect.waits[k] # PlainDelay(k))

\* C29: one reconnect call makes at most max_attempts attempts, returns
\* success at the first attempt that connects, waits initial_delay doubled per
\* attempt and capped at max_delay, without jitter, leaves the action's retry
\* counter alone, and always terminates.
C29_ReconnectLoop ==
    /\ [](ReconnectBounded)
    /\ [][ReconnectReturns]_vars
    /\ (wpc = "reconnect") ~> (wpc # "reconnect")
    /\ [](\A k \in 1..Len(reconnect.waits) : reconnect.waits[k] = PlainDelay(k))

C29_Witness ==
    /\ reconnect.attempt = max_attempts
    /\ Len(reconnect.waits) = max_attempts
    /\ recovery_history # <<>>
    /\ recovery_history[Len(recovery_history)].action = "reconnect"
    /\ recovery_history[Len(recovery_history)].status = "failed"

\* ------------------------------------------------------------------------
\* The three periodic loops side by side
\* ------------------------------------------------------------------------
syncPassVars == <<queues, inconsistencies, sposition, results, passes, previous_pass,
                  pass_start, sync_status>>

recoveryRest == <<recovery_queue, recovery_history, healthy, mpc, mposition, wpc,
                  current, next_id, backoffs, permanent, stop_signals, alerts,
                  disabled, popen_calls, reconnect>>

\* an exception leaves perform_sync: `except Exception` of _sync_loop,
\* sleep(10)
SyncIterationRaises ==
    /\ spc \in {"resolve", "finish"}
    /\ loop_errors["sync"] < MaxLoopErrors
    /\ loop_errors' = [loop_errors EXCEPT !["sync"] = @ + 1]
    /\ spc' = after_iteration_error
    /\ now' = now + 10
    /\ UNCHANGED <<store, coordVars, agentVars, checkerVars, syncPassVars, sync_running, running,
                   recoveryRest>>

\* `while self.running:` of _sync_loop not taken
SyncExits ==
    /\ spc = "idle"
    /\ ~sync_running
    /\ spc' = "stopped"
    /\ UNCHANGED <<store, coordVars, agentVars, checkerVars, syncPassVars, now, sync_running,
                   recoveryVars>>

\* StateSyncService.stop()
StopSync ==
    /\ sync_running
    /\ sync_running' = FALSE
    /\ UNCHANGED <<store, coordVars, agentVars, checkerVars, syncPassVars, now, spc, recoveryVars>>

LoopSpecInit ==
    /\ store = EmptyStore
    /\ CoordinatorInit
    /\ AgentInit
    /\ CheckerInit
    /\ SyncInit
    /\ RecoveryInitWith(Down({"rabbitmq"}))

LoopNext ==
    \/ perform_sync
    \/ FinishSync
    \/ SyncIterationRaises
    \/ SyncExits
    \/ StopSync
    \/ MonitorStart
    \/ CheckComponent
    \/ MonitorIterationRaises
    \/ MonitorExits
    \/ WorkerSort
    \/ WorkerTake
    \/ WorkerIterationRaises
    \/ ExecuteAction
    \/ WorkerRequeue
    \/ WorkerExits
    \/ StopRecovery

LoopSpec == LoopSpecInit /\ [][LoopNext]_vars

\* C30: in the sync loop, the monitor loop and the recovery worker, an
\* exception caught at the iteration boundary leaves the thread at the top of
\* its loop, and a loop ends only after its running flag was set to false.
C30_LoopsSurviveErrors ==
    /\ [][/\ loop_errors'["sync"] # loop_errors["sync"] => spc' = "idle"
          /\ loop_errors'["monitor"] # loop_errors["monitor"] => mpc' = "idle"
          /\ loop_errors'["worker"] # loop_errors["worker"] => wpc' = "idle"]_vars
    /\ [](spc = "stopped" => ~sync_running)
    /\ [](mpc = "stopped" => ~running)
    /\ [](wpc = "stopped" => ~running)

\* each loop has caught an exception and is inside a later iteration
C30_Witness ==
    /\ \A l \in LoopNames : loop_errors[l] = 1
    /\ sync_running /\ running
    /\ spc = "finish"
    /\ mpc = "checking"
    /\ wpc \in {"sorted", "execute"}

\* ------------------------------------------------------------------------
\* Cooperative cancellation of the three loops
\* ------------------------------------------------------------------------

\* the three loops and the two stop() calls
StopNext ==
    \/ perform_sync
    \/ FinishSync
    \/ SyncExits
    \/ StopSync
    \/ MonitorStart
    \/ CheckComponent
    \/ MonitorExits
    \/ WorkerSort
    \/ WorkerTake
    \/ ExecuteAction
    \/ WorkerRequeue
    \/ WorkerExits
    \/ StopRecovery

StopSpec == LoopSpecInit /\ [][StopNext]_vars

\* every thread runs: a statement that can execute does execute
StopLiveSpec ==
    /\ StopSpec
    /\ WF_vars(FinishSync) /\ WF_vars(SyncExits)
    /\ WF_vars(CheckComponent) /\ WF_vars(MonitorExits)
    /\ WF_vars(WorkerTake) /\ WF_vars(ExecuteAction) /\ WF_vars(WorkerRequeue)
    /\ WF_vars(WorkerExits)

AtLoopTop(label) == label \in {"idle", "stopped"}

\* C31: once stop() has set the running flag to false, a loop standing at the
\* top of its iteration starts no further sync pass, health check or recovery
\* action; a loop that has exited stays exited; and each of the three threads
\* eventually exits.
C31_CooperativeStop ==
    /\ [][/\ ~sync_running /\ AtLoopTop(spc) => AtLoopTop(spc')
          /\ ~running /\ AtLoopTop(mpc) => AtLoopTop(mpc')
          /\ ~running /\ AtLoopTop(wpc) => AtLoopTop(wpc')
          /\ spc = "stopped" => spc' = "stopped"
          /\ mpc = "stopped" => mpc' = "stopped"
          /\ wpc = "stopped" => wpc' = "stopped"]_vars
    /\ ~sync_running ~> spc = "stopped"
    /\ ~running ~> (mpc = "stopped" /\ wpc = "stopped")

\* both stop() calls were made after every loop had worked, and every loop
\* has exited
C31_Witness ==
    /\ ~sync_running /\ ~running
    /\ spc = "stopped" /\ mpc = "stopped" /\ wpc = "stopped"
    /\ passes >= 1
    /\ mposition > 0
    /\ recovery_history # <<>>

\* ------------------------------------------------------------------------
\* The agents' queue listeners
\* ------------------------------------------------------------------------
MaxAgentCalls == 2     \* calls the agent processes make in one behaviour

\* message.get(key, 'unknown')
get_or_unknown(value) == IF value = Absent THEN "unknown" ELSE value

\* what a handler leaves behind: the store, whether an exception left the
\* handler, and the levels of the lines it logged
Handled(s, exception, log) == [store |-> s, raised |-> exception, log |-> log]

\* the error field an agent_state document of this agent has now
error_of(s, agent_id) ==
    LET hit == find_one(s, "agent_states", "agent_id", agent_id)
    IN  IF hit = <<>> THEN Absent ELSE hit[1].error

\* update_manager_status: update_task_state(task_id, 'completed'), log_activity
\* and update_agent_state on a fresh StateManager, inside its own try/except
update_manager_status(message, s, reachable, n) ==
    LET updated == update_task_state(s, reachable, message.task_id, "completed",
                                     NoMetadata, n).store
        logged == IF reachable
                  THEN log_activity(updated, n + 1, "manager", "task_completed",
                                    message.task_id)
                  ELSE updated
    IN  update_agent_state(logged, reachable, "manager", "active",
                           error_of(logged, "manager"), n + 2)

\* archive_completed_task: one task_archived activity
archive_completed_task(message, s, reachable, n) ==
    IF reachable
    THEN log_activity(s, n, "manager", "task_archived", get_or_unknown(message.task_id))
    ELSE s

\* a handler that treats every message as a completion
handle_completion_message_any_type(message, s, reach1, reach2, n) ==
    IF ~message.object
    THEN Handled(s, FALSE, <<"error">>)
    ELSE Handled(archive_completed_task(message,
                     update_manager_status(message, s, reach1, n), reach2, n + 3),
                 FALSE, <<"info", "info">>)

\* handle_completion_message of the manager's listener.  message.get on a
\* JSON value that is not an object raises AttributeError inside the try;
\* `except Exception` logs it.
handle_completion_message(message, s, reach1, reach2, n) ==
    IF ~message.object
    THEN Handled(s, FALSE, <<"error">>)
    ELSE IF get_or_unknown(message.message_type) = "task_completion"
    THEN Handled(archive_completed_task(message,
                     update_manager_status(message, s, reach1, n), reach2, n + 3),
                 FALSE, <<"info", "info">>)
    ELSE Handled(s, FALSE, <<"info", "warning">>)

\* update_developer_status: StateManager has no update_task_status, the
\* AttributeError of the first call is caught by the function's own
\* try/except and nothing is written
update_developer_status(message, s, reachable, n) == s

\* archive_task_assignment: one task_assignment_archived activity
archive_task_assignment(message, s, reachable, n) ==
    IF reachable
    THEN log_activity(s, n, "developer", "task_assignment_archived",
                      get_or_unknown(message.task_id))
    ELSE s

\* handle_task_assignment of the developer's listener
handle_task_assignment(message, s, reach1, reach2, n) ==
    IF ~message.object
    THEN Handled(s, FALSE, <<"error">>)
    ELSE IF get_or_unknown(message.message_type) \in {"task_assignment", "task_notification"}
    THEN IF /\ message.message_type = "task_notification"
            /\ (~reach1 \/ find_one(s, "tasks", "task_id",
                                    get_or_unknown(message.task_id)) = <<>>)
         THEN Handled(s, FALSE, <<"info", "error">>)
         ELSE Handled(archive_task_assignment(message,
                          update_developer_status(message, s, reach1, n), reach2, n),
                      FALSE, <<"info", "info">>)
    ELSE Handled(s, FALSE, <<"info", "warning">>)

MessageTypes ==
    {"task_assignment", "task_notification", "task_completion", "task_status_update",
     "heartbeat", Absent}

\* the JSON values a queue delivers to a handler: objects with or without a
\* message_type and a task_id, and values that are not objects
ListenerMessages ==
    {[object |-> TRUE, message_type |-> t, task_id |-> id, from_agent |-> "developer"] :
        t \in MessageTypes, id \in {"T1", Absent}}
    \cup {[object |-> FALSE, message_type |-> Absent, task_id |-> Absent,
           from_agent |-> Absent]}

Handlers == {"handle_completion_message", "handle_task_assignment"}

\* the broker's consumer thread calls the listener's callback with a message
HandleMessage ==
    /\ agent_call.count < MaxAgentCalls
    /\ \E name \in Handlers, message \in ListenerMessages,
          reach1 \in BOOLEAN, reach2 \in BOOLEAN :
          LET n == 5000 + 10 * agent_call.count
              r == IF name = "handle_completion_message"
                   THEN handle_completion_message(message, store, reach1, reach2, n)
                   ELSE handle_task_assignment(message, store, reach1, reach2, n)
          IN  /\ store' = r.store
              /\ agent_call' = [name |-> name, count |-> agent_call.count + 1,
                                message |-> message, raised |-> r.raised,
                                log |-> r.log, before |-> store]
    /\ UNCHANGED <<coordVars, checkerVars, syncVars, recoveryVars, earlier_run>>

ListenerSpecInit ==
    /\ store \in SyncStores
    /\ CoordinatorInit
    /\ AgentInit
    /\ CheckerInit
    /\ SyncInit
    /\ RecoveryInit

ListenerNext == HandleMessage

ListenerSpec == ListenerSpecInit /\ [][ListenerNext]_vars

Logged(level) == \E i \in 1..Len(agent_call.log) : agent_call.log[i] = level

\* the message types a handler does not process
UnknownTo(name) ==
    IF name = "handle_completion_message"
    THEN MessageTypes \ {"task_completion"}
    ELSE MessageTypes \ {"task_assignment", "task_notification"}

\* C32: no message makes a listener's handler raise; a message whose
\* message_type the handler does not know is logged as a warning and leaves
\* the store as it was; and the manager's handler logs no warning for a
\* task_completion message.
C32_UnknownTypeIgnored ==
    agent_call.name \in Handlers =>
        /\ ~agent_call.raised
        /\ agent_call.message.object
              /\ agent_call.message.message_type \in UnknownTo(agent_call.name)
           => /\ store = agent_call.before
              /\ Logged("warning")
        /\ agent_call.name = "handle_completion_message"
              /\ agent_call.message.object
              /\ agent_call.message.message_type = "task_completion"
           => ~Logged("warning")

\* the manager's handler was called with a message of a type no component
\* produces, after a completion message had changed the store
C32_Witness ==
    /\ agent_call.name = "handle_completion_message"
    /\ agent_call.message.object
    /\ agent_call.message.message_type = "heartbeat"
    /\ agent_call.count = 2
    /\ store = agent_call.before
    /\ store.activity_logs # {}
    /\ Logged("warning")

\* ------------------------------------------------------------------------
\* StateManager.update_task_state called by an agent
\* ------------------------------------------------------------------------

\* the metadata maps a caller passes: none (or the empty map), a map with
\* started_at, a map without it
GivenMetadata ==
    {NoMetadata, Metadata(<<StartTime>>, FALSE, <<>>, Absent),
     Metadata(<<>>, TRUE, <<4000>>, "developer")}

UpdateTaskState ==
    /\ agent_call.count < MaxAgentCalls
    /\ \E task_id \in {"T1", "T2", "T3"}, new_state \in {"in_progress", "completed", ""},
          metadata \in GivenMetadata, reachable \in BOOLEAN :
          LET r == update_task_state(store, reachable, task_id, new_state, metadata,
                                     6000 + 10 * agent_call.count)
          IN  /\ store' = r.store
              /\ agent_call' = [name |-> "update_task_state",
                                count |-> agent_call.count + 1, task_id |-> task_id,
                                new_state |-> new_state, metadata |-> metadata,
                                reachable |-> reachable, ok |-> r.ok, before |-> store]
    /\ UNCHANGED <<coordVars, checkerVars, syncVars, recoveryVars, earlier_run>>

StateNext == UpdateTaskState

StateSpec == ListenerSpecInit /\ [][StateNext]_vars

\* update_task_state has just returned, with the store connected and a
\* status given
Updated == /\ agent_call.name = "update_task_state"
           /\ agent_call.reachable
           /\ agent_call.new_state # ""

TaskBefore == TasksWith(agent_call.before, agent_call.task_id)
TaskAfter == TasksWith(store, agent_call.task_id)

Untouched ==
    /\ ~agent_call.ok
    /\ store = agent_call.before

\* C33 as stated: on an existing Task the status is new_state, the metadata
\* is exactly the given map and the call returns true; with no such Task it
\* returns false and changes nothing.
C33_Original ==
    Updated =>
        IF TaskBefore # {}
        THEN /\ agent_call.ok
             /\ \A d \in TaskAfter : /\ d.status = agent_call.new_state
                                     /\ d.metadata = agent_call.metadata
        ELSE Untouched

\* C33 as the code has it: the metadata is replaced by the given map when the
\* map is not empty and stays as it was when the map is empty or omitted.
C33_MetadataReplaced ==
    Updated =>
        IF TaskBefore # {}
        THEN /\ agent_call.ok
             /\ \A d \in TaskAfter :
                   /\ d.status = agent_call.new_state
                   /\ IF agent_call.metadata # NoMetadata
                      THEN d.metadata = agent_call.metadata
                      ELSE \E b \in TaskBefore : d.metadata = b.metadata
             /\ Cardinality(TaskAfter) = 1
             /\ store.tasks \ TaskAfter = agent_call.before.tasks \ TaskBefore
        ELSE Untouched

\* a Task that had a started_at was updated with a map that has none, and
\* the started_at is gone
C33_Witness ==
    /\ Updated
    /\ agent_call.ok
    /\ agent_call.metadata = Metadata(<<>>, TRUE, <<4000>>, "developer")
    /\ \E b \in TaskBefore : b.metadata.started_at # <<>>
    /\ \A d \in TaskAfter : d.metadata.started_at = <<>>

\* ------------------------------------------------------------------------
\* TaskManager.complete_task
\* ------------------------------------------------------------------------

\* the message send_task_completion_notification builds
CompletionMessage(task_id, completed_by) ==
    [message_type |-> "task_completion", task_id |-> task_id, to_agent |-> "manager",
     priority |-> "normal", recovered |-> FALSE, recovery_reason |-> "none"]

\* completion_metadata: completed_by, completion_time, deliverables, summary
CompletionMetadata(agent_id) == Metadata(<<>>, FALSE, <<>>, agent_id)

\* send_task_completion_notification: connect, send_message to manager-queue;
\* published is FALSE when the broker cannot be reached or refuses
send_task_completion_notification(qs, published, task_id, completed_by) ==
    IF published
    THEN [queues |-> publish_message(qs, "manager-queue",
                                     CompletionMessage(task_id, completed_by)),
          ok |-> TRUE]
    ELSE [queues |-> qs, ok |-> FALSE]

\* TaskManager.complete_task: the database update, the notification, the
\* agent state, the activity; `return db_success`
complete_task(s, qs, reachable, published, task_id, agent_id, n) ==
    LET upd == update_task_state(s, reachable, task_id, "completed",
                                 CompletionMetadata(agent_id), n)
        sent == send_task_completion_notification(qs, published, task_id, agent_id)
        ready == update_agent_state(upd.store, reachable, agent_id, "ready",
                                    error_of(upd.store, agent_id), n + 1)
        logged == log_activity(ready, n + 3, agent_id, "task_completed", task_id)
    IN  IF ~upd.ok
        THEN [store |-> upd.store, queues |-> qs, returned |-> FALSE,
              db_success |-> FALSE, notify_success |-> FALSE]
        ELSE [store |-> logged, queues |-> sent.queues, returned |-> upd.ok,
              db_success |-> upd.ok, notify_success |-> sent.ok]

CompleteTask ==
    /\ agent_call.count < MaxAgentCalls
    /\ \E task_id \in {"T1", "T2", "T3"}, agent_id \in AgentIds,
          reachable \in BOOLEAN, published \in BOOLEAN :
          LET r == complete_task(store, queues, reachable, published, task_id, agent_id,
                                 7000 + 10 * agent_call.count)
          IN  /\ store' = r.store
              /\ queues' = r.queues
              /\ agent_call' = [name |-> "complete_task", count |-> agent_call.count + 1,
                                task_id |-> task_id, agent_id |-> agent_id,
                                returned |-> r.returned, db_success |-> r.db_success,
                                notify_success |-> r.notify_success,
                                before |-> [store |-> store, queues |-> queues]]
    /\ UNCHANGED <<coordVars, checkerVars, recoveryVars, now, spc, inconsistencies,
                   sposition, results, passes, previous_pass, pass_start, sync_status,
                   sync_running, earlier_run>>

TaskManagerNext == CompleteTask

TaskManagerSpec == ListenerSpecInit /\ [][TaskManagerNext]_vars

\* C34: complete_task returns True only if both the database update and the
\* notification succeeded; when the database update fails it returns False,
\* sends nothing and leaves the agent states as they were.
C34_CompleteTaskResult ==
    agent_call.name = "complete_task" =>
        /\ agent_call.returned => agent_call.db_success /\ agent_call.notify_success
        /\ ~agent_call.db_success =>
              /\ ~agent_call.returned
              /\ queues = agent_call.before.queues
              /\ store.agent_states = agent_call.before.store.agent_states

\* ------------------------------------------------------------------------
\* execute_transaction: the effect of a successful call
\* ------------------------------------------------------------------------

\* operation lists of updates only: a counter incremented, a status set
CountingLists ==
    { << Operation("agent_states", "update", KeyFilter("agent_id", "developer"),
                   Update([status |-> "working"], {}, {"tasks_assigned"})) >>,
      << Operation("tasks", "update", KeyFilter("task_id", "T1"),
                   Update([status |-> "completed"], {}, {})),
         Operation("agent_states", "update", KeyFilter("agent_id", "developer"),
                   Update([status |-> "ready"], {}, {"tasks_completed"})) >> }

\* execute_transaction called directly with a list of updates
execute_transaction_updates ==
    /\ pc = "idle"
    /\ calls < MaxCalls
    /\ calls' = calls + 1
    /\ previous' = [call |-> call, result |-> result, base |-> base]
    /\ \E list \in CountingLists :
          Enter([name |-> "execute_transaction", task_id |-> "none",
                 agent_id |-> "none"], list, "direct")
    /\ UNCHANGED scopeVars
    /\ UNCHANGED serviceVars

CountingNext ==
    \/ execute_transaction_updates
    \/ StartAttempt
    \/ RetriesExhausted
    \/ ExecuteOperation
    \/ OperationFails
    \/ CommitSucceeds
    \/ CommitFails
    \/ CommitUnknown
    \/ Return

CountingSpec == Init /\ [][CountingNext]_vars

\* C35: whenever execute_transaction has returned True, the store is the store
\* the call started from with the operation list applied once, whatever the
\* earlier attempts of the call ran into.
C35_AppliedExactlyOnce ==
    (Returned /\ call.name = "execute_transaction" /\ result = "True") =>
        store = Times(base, operations, 1)

\* ------------------------------------------------------------------------
\* The transaction scope: explicit abort, and the records of a scope
\* ------------------------------------------------------------------------

\* the body ended normally: the scope was left without an exception, or with
\* one that the exit of the scope raised itself
NormalExit ==
    \/ raised = "none"
    \/ raised = "RuntimeError: Transaction already finalized" /\ caller = "exit"

\* C36: a scope whose caller enqueued operations, called abort() and let the
\* body end normally is aborted, has executed none of its operations and
\* raises nothing to its caller.
C36_ExplicitAbort ==
    (/\ ScopeEnded
     /\ context.operations # <<>>
     /\ context.aborted
     /\ NormalExit)
    => /\ outcome = "returned"
       /\ store = base

\* TransactionManager.get_transaction_stats over a history
get_transaction_stats(history) ==
    [total_transactions |-> Len(history),
     successful |-> Cardinality({i \in 1..Len(history) : history[i] = "committed"}),
     failed |-> Cardinality({i \in 1..Len(history) : history[i] \in {"aborted", "failed"}})]

\* C37: the scopes started so far have added at most one record each to
\* transaction_history, the first scope exactly one if it enqueued operations;
\* every record is committed, failed or aborted, and successful + failed of
\* get_transaction_stats is total_transactions.
C37_OneRecordPerScope ==
    LET stats == get_transaction_stats(transaction_history)
    IN  /\ stats.total_transactions <= calls
        /\ (ScopeEnded /\ calls = 1 /\ context.operations # <<>>)
              => stats.total_transactions = 1
        /\ \A i \in 1..Len(transaction_history) :
              transaction_history[i] \in {"committed", "failed", "aborted"}
        /\ stats.successful + stats.failed = stats.total_transactions

\* ------------------------------------------------------------------------
\* The Consistency Checker run twice
\* ------------------------------------------------------------------------

\* run_full_check() called again right after a run returned: the same
\* entry, the run before kept for comparison
run_full_check_again ==
    /\ cpc = "idle"
    /\ checks >= 1
    /\ ~earlier_run.made
    /\ earlier_run' = [made |-> TRUE, auto_repair |-> auto_repair, issues |-> issues,
                       repair_calls |-> repair_calls, store |-> store]
    /\ checks' = checks + 1
    /\ auto_repair' = FALSE
    /\ issues' = validate_schemas(store)
    /\ repairs_performed' = 0
    /\ rule' = 1
    /\ position' = 0
    /\ rule_failures' = {}
    /\ repair_calls' = <<>>
    /\ cpc' = "rules"
    /\ UNCHANGED <<store, coordVars, agent_call, report>>
    /\ UNCHANGED <<syncVars, recoveryVars>>

\* stores with one inconsistency a repair function exists for, and the store
\* in which the developer holds two active Tasks
ConvergeStores ==
    {[tasks |-> ts, agent_states |-> as, activity_logs |-> {}, archived_tasks |-> {}] :
        ts \in { {TaskRecord("T1", "assigned", "developer", <<>>, <<>>),
                  TaskRecord("T2", "in_progress", "developer", <<>>, <<>>)},
                 {TaskRecord("T1", "assigned", "manager", <<>>, <<>>)},
                 {TaskRecord("T1", "assigned", "worker-1", <<>>, <<>>)},
                 {} },
        as \in { {AgentRecord(11, "manager", "ready", None),
                  AgentRecord(12, "developer", "working", "T1")},
                 {AgentRecord(11, "manager", "working", "T3"),
                  AgentRecord(12, "developer", "ready", None)} }}

ConvergeSpecInit ==
    /\ store \in ConvergeStores
    /\ CoordinatorInit
    /\ AgentInit
    /\ CheckerInit
    /\ SyncInit
    /\ RecoveryInit

ConvergeNext ==
    \/ run_full_check
    \/ run_full_check_again
    \/ RunRule
    \/ RepairIssue
    \/ Report

ConvergeSpec == ConvergeSpecInit /\ [][ConvergeNext]_vars

\* the run before was made with auto_repair and each repair function it
\* called committed and returned True
RepairedEverything ==
    /\ earlier_run.made
    /\ earlier_run.auto_repair
    /\ \A c \in 1..Len(earlier_run.repair_calls) :
          earlier_run.repair_calls[c].end = "committed"

\* C38: when a run with auto_repair in which every attempted repair succeeded
\* is followed at once by another run, the second run finds no issue that is
\* marked auto-repairable.
C38_RepairsConverge ==
    (RepairedEverything /\ cpc \in {"report", "idle"}) =>
        \A i \in 1..Len(issues) : ~issues[i].can_auto_repair

\* ------------------------------------------------------------------------
\* The sync pass and an agent completing Tasks at the same time
\* ------------------------------------------------------------------------

\* stores with a Task in progress, stalled or not, and agents with an old or
\* a fresh heartbeat
RaceStores ==
    {[tasks |-> first \cup second, agent_states |-> agents, activity_logs |-> {},
      archived_tasks |-> {}] :
        first \in { {SyncTask(1, "T1", "in_progress", "developer", Stalled)},
                    {SyncTask(1, "T1", "in_progress", "developer", Recent)} },
        second \in { {}, {SyncTask(2, "T2", "assigned", "manager", <<>>)} },
        agents \in SyncAgentSets \ {{}}}

RaceSpecInit ==
    /\ store \in RaceStores
    /\ CoordinatorInit
    /\ AgentInit
    /\ CheckerInit
    /\ SyncInit
    /\ RecoveryInit

\* the service thread and the agent process take their steps in any order
RaceNext ==
    \/ perform_sync
    \/ ResolveInconsistency
    \/ FinishSync
    \/ CompleteTask

RaceSpec == RaceSpecInit /\ [][RaceNext]_vars

\* C39: a Task with status completed keeps that status at every step, also
\* at a resolution step of a sync pass that detected the Task as stalled, or
\* its agent as unresponsive, before the agent completed it.
C39_CompletedStaysCompleted ==
    [][\A d \in store.tasks :
          d.status = "completed" =>
              \E e \in store'.tasks : e.task_id = d.task_id /\ e.status = "completed"]_vars

\* ------------------------------------------------------------------------
\* A stalled Task reset whose message was not published
\* ------------------------------------------------------------------------

\* the Tasks the pass before reset to assigned in _resolve_stalled_task
\* without publishing their message, still assigned when this pass started
ResetUnpublished ==
    {d \in pass_start.store.tasks :
        /\ d.status = "assigned"
        /\ d.metadata.reassigned
        /\ \E i \in 1..Len(previous_pass) :
              /\ previous_pass[i].type = "stalled_task"
              /\ previous_pass[i].task_id = d.task_id
              /\ ~previous_pass[i].resolved}

Requeued(d) ==
    \E i \in 1..Len(queues[target_queue(d)]) :
        LET m == queues[target_queue(d)][i]
        IN  /\ m.message_type = "task_assignment"
            /\ m.task_id = d.task_id
            /\ m.to_agent = d.assigned_to

====
